---- MODULE Spec2Model ----
(***************************************************************************)
(* Deterministic supervisor workflow of the EV market intelligence system. *)
(*                                                                         *)
(* The model follows src/states/state.py (SupervisorState) and             *)
(* src/supervisor/builder.py (build_supervisor_workflow, run_supervisor,   *)
(* _invoke_agent, _compile_final_report).  run_supervisor is a coroutine;  *)
(* pc is its position, and one action is one straight-line piece of it.    *)
(* The only suspension point modelled is the await of agent.ainvoke, at    *)
(* which the collaborator either returns a result or raises.               *)
(*                                                                         *)
(* One SupervisorState object is tracked: the one the current (or the last)*)
(* call of run_supervisor works on.  A caller may start a call with no     *)
(* state (run_supervisor constructs one with the dataclass defaults), with *)
(* a state it has just constructed with its own max_steps / max_retries,   *)
(* or with the state object of an earlier call that it still holds.        *)
(***************************************************************************)
EXTENDS Integers, Sequences, FiniteSets, TLC

\* ------------------------------------------------------------------ bounds
\* Number of calls of run_supervisor in one behaviour.
MaxRuns == 3
\* A caller-constructed state takes max_steps from 0..MaxStepLimit.
MaxStepLimit == 3
\* A caller-constructed state takes max_retries from 0..MaxRetryLimit.
MaxRetryLimit == 1
\* Longest text handed to _clean_text on its own.
MaxTextLen == 3
MaxDepth == 2
MaxNotes == 2

\* --------------------------------------------------------- program constants
\* SupervisorState.max_steps default.
DefaultMaxSteps == 75
\* SupervisorState.max_retries default.
DefaultMaxRetries == 2

\* Python's None.
None == "<None>"

\* Optional[str] for final_report, whose value is a structured text: the
\* empty sequence is None, a one-element sequence holds the text.
Unset == <<>>
Some(text) == <<text>>

\* Keys of the analysis mapping and of the validation mapping (AgentName);
\* every caller in the repository builds the two mappings with disjoint keys.
AnalysisNames == {"market", "policy"}
ValidationNames == {"cross_layer_validation"}
AgentNames == AnalysisNames \cup ValidationNames

\* Fixed text of the report compiler for an agent without usable data.
Placeholder == <<"(insufficient data)">>

\* Fixed text of _summarise_agent_result for a None result.
NoResult == <<"(no result)">>

\* _clean_text's default sentence_limit.
SentenceLimit == 4

\* The texts of the configured agents' answers: a clean sentence, and a text
\* with a bullet and a heading marker.
ReplyTexts == { <<"a", ".">>, <<"-", "#", "a">> }

\* progress_handler of a call of run_supervisor: absent, a plain function,
\* or a coroutine function.
Handlers == {"none", "sync", "async"}

\* The two drafts of the workflow: supervisor/builder.py (used by main.py)
\* and supervisor/workflow.py (used by test.py).
Drafts == {"builder", "workflow"}

\* The task strings handed to run_supervisor.
Tasks == { <<"a", "?", " ", "b">> }

\* The task strings of callers that ask more than one question.
TwoTasks == Tasks \cup { <<"b", "?">> }

\* The stages, in pipeline order.
Stages == <<"analysis", "validation", "final", "done">>

VARIABLES
    analysis_order,     \* list(analysis_agents.keys())
    validation_order,   \* list(validation_agents.keys())
    reply,              \* the value the configured agents return
    handler_kinds,      \* the kinds of progress_handler the caller passes
    draft,              \* the draft of the workflow that runs
    tasks,              \* the task strings the caller uses
    task_input,         \* SupervisorState.task_input
    current_agent,      \* SupervisorState fields ...
    notes,
    decisions,
    retry_count,
    total_steps,
    max_retries,
    max_steps,
    final_report,
    history,
    stage,
    pc,                 \* position of run_supervisor
    phase,              \* which of the two agent loops is running
    idx,                \* loop index into analysis_order / validation_order
    error,              \* the exception the last call raised, or None
    held,               \* TRUE when the caller holds a reference to the state
    runs,               \* calls of run_supervisor so far
    fresh,              \* TRUE when the current call started on a fresh state
    invoked,            \* agents whose ainvoke was called in the current call
    completed,          \* per agent: ainvoke calls that returned, since creation
    step_calls,         \* step() calls since the state was created
    step_returns,       \* step() calls that returned normally, since creation
    report_writes,      \* assignments to final_report since creation
    handler,            \* progress_handler of the current call
    task_arg,           \* the task_input argument of the current call
    sent,               \* the message contents sent to agents in the current call
    in_flight,          \* agent.ainvoke calls that have not returned or raised
    callback,           \* "running" while a progress coroutine is awaited
    progress_calls,     \* the records progress_handler was called with,
                        \* since the state was created
    fn,                 \* function applications: which one has been applied
    arg,                \* function applications: the argument
    res                 \* function applications: the results, in order

stateVars == <<task_input, current_agent, notes, decisions, retry_count, total_steps,
               max_retries, max_steps, final_report, history, stage>>
ctlVars == <<pc, phase, idx, error, held, runs, fresh>>
obsVars == <<invoked, completed, step_calls, step_returns, report_writes>>
cfgVars == <<analysis_order, validation_order, reply, handler_kinds, draft, tasks>>
cbVars == <<handler, task_arg, sent, in_flight, callback, progress_calls>>
fnVars == <<fn, arg, res>>
vars == <<cfgVars, stateVars, ctlVars, obsVars, cbVars, fnVars>>

\* ----------------------------------------------------------------- helpers
Range(s) == {s[i] : i \in DOMAIN s}

\* Sequences over S without repetition (the key lists of a dict).
KeyLists(S) ==
    {s \in UNION {[1..k -> S] : k \in 0..Cardinality(S)} :
        \A i, j \in DOMAIN s : i # j => s[i] # s[j]}

Last(s) == s[Len(s)]

StageRank(s) == CHOOSE i \in DOMAIN Stages : Stages[i] = s

\* The agents of the pipeline, in the order run_supervisor iterates them.
Pipeline == analysis_order \o validation_order

\* ------------------------------------------------------------------ texts
\* A Python str is a sequence of symbols.  A symbol is one character, or a
\* fixed piece of text that every operation below treats as a unit.
NL == "\n"
Backtick == "<backtick>"
Scheme == "http://"
Whitespace == {" ", NL}
Bullets == {"*", "-"}
SentenceEnd == {".", "!", "?"}

\* str.strip() / the end of re.sub(r"\s+", " ", text).strip()
RECURSIVE LStrip(_)
LStrip(s) ==
    IF s # <<>> /\ Head(s) \in Whitespace THEN LStrip(Tail(s)) ELSE s

RECURSIVE RStripSpace(_)
RStripSpace(s) ==
    IF s # <<>> /\ Last(s) \in Whitespace
    THEN RStripSpace(SubSeq(s, 1, Len(s) - 1)) ELSE s

Strip(s) == RStripSpace(LStrip(s))

\* re.sub(r"`+", "", value)
RemoveBackticks(s) == SelectSeq(s, LAMBDA c : c # Backtick)

\* First index j >= i of s that does not hold whitespace (Len(s)+1 if none).
RECURSIVE SkipSpace(_, _)
SkipSpace(s, i) ==
    IF i <= Len(s) /\ s[i] \in Whitespace THEN SkipSpace(s, i + 1) ELSE i

\* First index k >= i of s that holds a newline (Len(s)+1 if none).
RECURSIVE LineEnd(_, _)
LineEnd(s, i) ==
    IF i <= Len(s) /\ s[i] # NL THEN LineEnd(s, i + 1) ELSE i

\* ^ under re.MULTILINE
LineStart(s, i) == i = 1 \/ s[i - 1] = NL

\* re.sub(r"^\s*#+.*$", "", text, flags=re.MULTILINE), scanning from index i:
\* at a line start, \s* runs over any whitespace, newlines included, and the
\* match ends before the newline that ends the line of the '#'.
RECURSIVE RemoveHeadingsFrom(_, _)
RemoveHeadingsFrom(s, i) ==
    IF i > Len(s) THEN <<>>
    ELSE LET j == SkipSpace(s, i)
         IN  IF LineStart(s, i) /\ j <= Len(s) /\ s[j] = "#"
             THEN RemoveHeadingsFrom(s, LineEnd(s, j))
             ELSE <<s[i]>> \o RemoveHeadingsFrom(s, i + 1)

RemoveHeadings(s) == RemoveHeadingsFrom(s, 1)

\* re.sub(r"[\*\-•]+", "", text)
RemoveBullets(s) == SelectSeq(s, LAMBDA c : c \notin Bullets)

\* re.sub(r"\s+", " ", text)
RECURSIVE CollapseSpace(_)
CollapseSpace(s) ==
    IF s = <<>> THEN <<>>
    ELSE IF Head(s) \in Whitespace
         THEN <<" ">> \o CollapseSpace(LStrip(s))
         ELSE <<Head(s)>> \o CollapseSpace(Tail(s))

\* " ".join(re.split(r"(?<=[.!?\.])\s+", text)[:limit]) on a text whose
\* whitespace is single spaces: the text up to the limit-th space that
\* follows a sentence end, scanning from index i with n sentences left.
RECURSIVE FirstSentencesFrom(_, _, _)
FirstSentencesFrom(s, i, n) ==
    IF i > Len(s) THEN <<>>
    ELSE IF i > 1 /\ s[i] \in Whitespace /\ s[i - 1] \in SentenceEnd
         THEN IF n = 1 THEN <<>>
              ELSE <<s[i]>> \o FirstSentencesFrom(s, i + 1, n - 1)
         ELSE <<s[i]>> \o FirstSentencesFrom(s, i + 1, n)

FirstSentences(s, limit) ==
    IF limit <= 0 THEN <<>> ELSE FirstSentencesFrom(s, 1, limit)

\* _clean_text up to its first `if`: the text without markup, single-spaced.
Stripped(value) ==
    Strip(CollapseSpace(RemoveBullets(RemoveHeadings(RemoveBackticks(value)))))

\* _clean_text(value, sentence_limit=limit)
CleanTextLimit(value, limit) ==
    LET text == Stripped(value)
        trimmed == Strip(FirstSentences(text, limit))
    IN  IF text = <<>> THEN Placeholder
        ELSE IF trimmed = <<>> THEN Placeholder ELSE trimmed

\* _clean_text(value), with the default sentence_limit
CleanText(value) == CleanTextLimit(value, SentenceLimit)

\* The symbols in code point order (a multi-character symbol stands where
\* its first character stands).
SymbolOrder == <<NL, " ", "!", "#", "$", "%", "&", "'", "(", ")", "*", "+", ",",
                 "-", ".", "/", ":", ";", "=", "?", "@", "[", "]", "_", "a",
                 "b", Scheme, "~">>

Code(c) == CHOOSE i \in DOMAIN SymbolOrder : SymbolOrder[i] = c

\* x < y for Python strings
RECURSIVE TextLess(_, _)
TextLess(x, y) ==
    IF y = <<>> THEN FALSE
    ELSE IF x = <<>> THEN TRUE
    ELSE IF Head(x) = Head(y) THEN TextLess(Tail(x), Tail(y))
    ELSE Code(Head(x)) < Code(Head(y))

\* sorted(refs)
RECURSIVE SortTexts(_)
SortTexts(S) ==
    IF S = {} THEN <<>>
    ELSE LET m == CHOOSE x \in S : \A y \in S : x = y \/ TextLess(x, y)
         IN  <<m>> \o SortTexts(S \ {m})

\* ----------------------------------------------------------- Python values
\* What a collaborator returns and what a snapshot stores: a Python value,
\* tagged with its type.  A dict is the sequence of its <<key, value>> items
\* in insertion order; an object is given by its content attribute (Unset
\* when it has none, Some(value) otherwise) and by the text str() gives
\* for it.
NoneV == [t |-> "none", v |-> <<>>]
StrV(text) == [t |-> "str", v |-> text]
IntV(n) == [t |-> "int", v |-> n]
ListV(items) == [t |-> "list", v |-> items]
SetV(elems) == [t |-> "set", v |-> elems]
DictV(items) == [t |-> "dict", v |-> items]
ObjV(content, str) == [t |-> "obj", v |-> [content |-> content, str |-> str]]

\* A raised exception, as the outcome of a function.
Raised(exc) == [t |-> "raise", v |-> exc]

\* A message object of the agent framework: its content, and str() of it.
MessageV(content) ==
    ObjV(Some(StrV(content)), <<"content=", "'">> \o content \o <<"'">>)

\* mapping.get(key): None when the key is absent.
DictGet(dict, key) ==
    IF \E i \in DOMAIN dict.v : dict.v[i][1] = StrV(key)
    THEN dict.v[CHOOSE i \in DOMAIN dict.v : dict.v[i][1] = StrV(key)][2]
    ELSE NoneV

\* x < y is defined for every two elements of the set: all are ints or all
\* are strs.  (None and plain objects define no order.)
Sortable(elems) ==
    \/ Cardinality(elems) <= 1
    \/ \A x \in elems : x.t = "int"
    \/ \A x \in elems : x.t = "str"

\* x < y for two ints or two strs
ValueLess(x, y) ==
    IF x.t = "int" THEN x.v < y.v ELSE TextLess(x.v, y.v)

\* sorted(value) for a sortable set
RECURSIVE SortValues(_)
SortValues(elems) ==
    IF elems = {} THEN <<>>
    ELSE LET m == CHOOSE x \in elems : \A y \in elems : x = y \/ ValueLess(x, y)
         IN  <<m>> \o SortValues(elems \ {m})

\* SupervisorState.snapshot's _serialise
RECURSIVE Serialise(_)
Serialise(value) ==
    CASE value.t \in {"none", "str", "int"} -> value
      [] value.t = "dict" ->
            LET items == [i \in DOMAIN value.v |->
                            <<value.v[i][1], Serialise(value.v[i][2])>>]
            IN  IF \E i \in DOMAIN items : items[i][2].t = "raise"
                THEN Raised("TypeError") ELSE DictV(items)
      [] value.t = "list" ->
            LET items == [i \in DOMAIN value.v |-> Serialise(value.v[i])]
            IN  IF \E i \in DOMAIN items : items[i].t = "raise"
                THEN Raised("TypeError") ELSE ListV(items)
      [] value.t = "set" ->
            IF ~Sortable(value.v) THEN Raised("TypeError")
            ELSE LET sorted == SortValues(value.v)
                 IN  ListV([i \in DOMAIN sorted |-> Serialise(sorted[i])])
      [] OTHER -> StrV(value.v.str)

\* str.strip() is not empty
NotBlank(text) == Strip(text) # <<>>

\* sep.join(parts)
RECURSIVE Join(_, _)
Join(sep, parts) ==
    IF parts = <<>> THEN <<>>
    ELSE IF Len(parts) = 1 THEN parts[1]
    ELSE parts[1] \o sep \o Join(sep, Tail(parts))

\* bool(value)
Truthy(value) ==
    CASE value.t = "none" -> FALSE
      [] value.t = "int" -> value.v # 0
      [] value.t = "str" -> value.v # <<>>
      [] value.t = "list" -> value.v # <<>>
      [] value.t = "dict" -> value.v # <<>>
      [] value.t = "set" -> value.v # {}
      [] OTHER -> TRUE

\* repr(value); of a str, its text between quotes.  (The text of a set
\* follows the set's iteration order, which is not modelled: no value whose
\* text is taken holds a set.)
RECURSIVE Repr(_)
Repr(value) ==
    CASE value.t = "none" -> <<"None">>
      [] value.t = "int" -> <<ToString(value.v)>>
      [] value.t = "str" -> <<"'">> \o value.v \o <<"'">>
      [] value.t = "list" ->
            <<"[">> \o Join(<<",", " ">>, [i \in DOMAIN value.v |-> Repr(value.v[i])])
                \o <<"]">>
      [] value.t = "dict" ->
            <<"{">> \o Join(<<",", " ">>,
                          [i \in DOMAIN value.v |->
                              Repr(value.v[i][1]) \o <<":", " ">> \o Repr(value.v[i][2])])
                \o <<"}">>
      [] value.t = "obj" -> value.v.str

\* str(value)
Str(value) == IF value.t = "str" THEN value.v ELSE Repr(value)

\* The characters of a text, each as a text of its own.
Chars(text) == [i \in DOMAIN text |-> <<text[i]>>]

\* "\n".join(str(part) for part in content if part), for a str or a list
JoinParts(content) ==
    IF content.t = "str" THEN Join(<<NL>>, Chars(content.v))
    ELSE LET parts == SelectSeq(content.v, Truthy)
         IN  Join(<<NL>>, [i \in DOMAIN parts |-> Str(parts[i])])

\* _summarise_agent_result
RECURSIVE SummariseAgentResult(_)
SummariseAgentResult(result) ==
    CASE result.t = "none" -> NoResult
      [] result.t = "str" -> result.v
      [] result.t = "dict" ->
            LET messages == DictGet(result, <<"messages">>)
                output == DictGet(result, <<"output">>)
            IN  IF messages.t = "list" /\ messages.v # <<>>
                THEN SummariseAgentResult(Last(messages.v))
                ELSE IF messages.t = "str" /\ messages.v # <<>>
                THEN <<Last(messages.v)>>
                ELSE IF output.t # "none"
                THEN SummariseAgentResult(output)
                ELSE Str(result)
      [] result.t = "obj" ->
            IF result.v.content = Unset THEN Str(result)
            ELSE LET content == result.v.content[1]
                 IN  IF content.t = "str" /\ NotBlank(content.v) THEN content.v
                     ELSE IF content.t \in {"str", "list"} /\ JoinParts(content) # <<>>
                     THEN JoinParts(content)
                     ELSE Str(result)
      [] result.t = "list" ->
            LET flattened == SelectSeq(result.v, Truthy)
            IN  IF flattened # <<>> THEN SummariseAgentResult(Last(flattened))
                ELSE Str(result)
      [] OTHER -> Str(result)

\* A lookup that gives only the oldest note of the agent.
NotesOfOldest(agent) ==
    IF agent \in DOMAIN notes /\ notes[agent] # <<>> THEN <<notes[agent][1]>> ELSE <<>>

\* state.notes.get(agent, [])
NotesOf(agent) == IF agent \in DOMAIN notes THEN notes[agent] ELSE <<>>

\* _latest that reads the notes of "market" whatever the agent is.
LatestOfMarket(agent) ==
    IF NotesOf("market") = <<>> THEN Placeholder
    ELSE CleanText(Last(NotesOf("market")))

\* _compile_final_report._latest
Latest(agent) ==
    IF NotesOf(agent) = <<>> THEN Placeholder
    ELSE CleanText(Last(NotesOf(agent)))

\* order-preserving removal of repeated snippets
RECURSIVE Unique(_)
Unique(snippets) ==
    IF snippets = <<>> THEN <<>>
    ELSE LET init == SubSeq(snippets, 1, Len(snippets) - 1)
             rest == Unique(init)
         IN  IF Last(snippets) \in Range(init) THEN rest
             ELSE Append(rest, Last(snippets))

\* _combine_agents that keeps repeated snippets.
CombineAgentsKeepRepeats(agents) ==
    LET withNotes == SelectSeq(agents, LAMBDA a : NotesOf(a) # <<>>)
        snippets == [i \in DOMAIN withNotes |-> Latest(withNotes[i])]
    IN  IF snippets = <<>> THEN Placeholder ELSE Join(<<" ">>, snippets)

\* _combine_agents that returns the empty string when no agent has a note.
CombineAgentsEmpty(agents) ==
    LET withNotes == SelectSeq(agents, LAMBDA a : NotesOf(a) # <<>>)
        snippets == [i \in DOMAIN withNotes |-> Latest(withNotes[i])]
        unique == Unique(snippets)
    IN  IF unique = <<>> THEN <<>> ELSE Join(<<" ">>, unique)

\* _compile_final_report._combine_agents
CombineAgents(agents) ==
    LET withNotes == SelectSeq(agents, LAMBDA a : NotesOf(a) # <<>>)
        snippets == [i \in DOMAIN withNotes |-> Latest(withNotes[i])]
        unique == Unique(snippets)
    IN  IF unique = <<>> THEN Placeholder ELSE Join(<<" ">>, unique)

\* ------------------------------------------------------------- references
\* The characters of the URL pattern's class besides \w.
UrlPunct == {"-", ".", "_", "~", ":", "/", "?", "#", "[", "]", "@", "!", "$",
             "&", "'", "(", ")", "*", "+", ",", ";", "=", "%"}

\* The \w characters used in texts.
Letters == {"a", "b"}

\* A symbol all of whose characters are in the class of the URL pattern.
UrlChar(c) == c \in Letters \cup UrlPunct \cup {Scheme}

\* First index j >= i of s that does not hold a URL character.
RECURSIVE UrlEnd(_, _)
UrlEnd(s, i) ==
    IF i <= Len(s) /\ UrlChar(s[i]) THEN UrlEnd(s, i + 1) ELSE i

\* match.rstrip(".,;")
RECURSIVE RStripPunct(_)
RStripPunct(s) ==
    IF s # <<>> /\ Last(s) \in {".", ",", ";"}
    THEN RStripPunct(SubSeq(s, 1, Len(s) - 1)) ELSE s

\* re.findall(r"https?://[\w\-._~:/?#\[\]@!$&'()*+,;=%]+", text) from index i
RECURSIVE FindAllFrom(_, _)
FindAllFrom(s, i) ==
    IF i > Len(s) THEN {}
    ELSE IF s[i] = Scheme /\ i + 1 <= Len(s) /\ UrlChar(s[i + 1])
         THEN LET j == UrlEnd(s, i + 1)
              IN  {SubSeq(s, i, j - 1)} \cup FindAllFrom(s, j)
         ELSE FindAllFrom(s, i + 1)

\* _collect_from_text: each match right-stripped of ".,;".
FindUrls(s) == {RStripPunct(match) : match \in FindAllFrom(s, 1)}

\* _extract_references._visit on a serialised value
RECURSIVE VisitUrls(_)
VisitUrls(value) ==
    CASE value.t = "str" -> FindUrls(value.v)
      [] value.t = "list" -> UNION {VisitUrls(value.v[i]) : i \in DOMAIN value.v}
      [] value.t = "dict" -> UNION {VisitUrls(value.v[i][2]) : i \in DOMAIN value.v}
      [] OTHER -> {}

\* _compile_final_report._extract_references
ExtractReferences ==
    LET fromNotes == UNION {UNION {FindUrls(notes[a][i]) : i \in DOMAIN notes[a]} :
                              a \in DOMAIN notes}
        fromHistory == UNION {VisitUrls(DictGet(history[i].result, <<"raw">>)) :
                                i \in DOMAIN history}
    IN  SortTexts(fromNotes \cup fromHistory)

\* ----------------------------------------------------------------- report
\* Fixed texts of the report.
NoSources == <<"(no external sources)">>
Attribution == <<"(attribution)">>
IndentMark == "   - "
Digits == <<"1", "2", "3", "4", "5", "6", "7", "8">>
Titles == <<"EXECUTIVE SUMMARY", "MARKET OVERVIEW", "POLICY/REGULATION",
            "OEM ANALYSIS", "SUPPLY CHAIN ANALYSIS", "FINANCIAL OUTLOOK",
            "CROSS-LAYER INSIGHTS", "REFERENCES">>

\* The header line of section n.
Header(n) == <<Digits[n], ".", " ", Titles[n]>>

\* _indent without the indentation marker.
IndentNoMark(lines) == SelectSeq(lines, LAMBDA line : line # <<>>)

\* _compile_final_report._indent
Indent(lines) ==
    LET kept == SelectSeq(lines, LAMBDA line : line # <<>>)
    IN  [i \in DOMAIN kept |-> <<IndentMark>> \o kept[i]]

\* _compile_final_report: the lines of the report.
ReportLines ==
    LET exec_summary ==
            << <<"query: ">> \o CleanTextLimit(task_input, 1),
               <<"finding: ">> \o Latest("market"),
               <<"trend: ">> \o Latest("finance"),
               <<"conclusion">> >>
        references == IF ExtractReferences = <<>> THEN <<NoSources>>
                      ELSE ExtractReferences
    IN  <<Header(1)>> \o Indent(exec_summary) \o << <<>> >>
        \o <<Header(2)>>
        \o Indent(<< <<"trends:">>, CombineAgents(<<"market", "policy">>) >>)
        \o << <<>> >>
        \o <<Header(3)>> \o Indent(<<Latest("policy")>>) \o << <<>> >>
        \o <<Header(4)>> \o Indent(<<Latest("oem")>>) \o << <<>> >>
        \o <<Header(5)>> \o Indent(<<Latest("supply_chain")>>) \o << <<>> >>
        \o <<Header(6)>> \o Indent(<<Latest("finance")>>) \o << <<>> >>
        \o <<Header(7)>> \o Indent(<<CombineAgents(validation_order)>>)
        \o << <<>> >>
        \o <<Header(8)>> \o Indent(references) \o << <<>> >>
        \o <<Attribution>>

\* _compile_final_report
CompileFinalReport == Strip(Join(<<NL>>, ReportLines))

\* A mapping with an "output" text and a set of tags of mixed types.
TaggedOutput(text) ==
    DictV(<< <<StrV(<<"output">>), StrV(text)>>,
             <<StrV(<<"tags">>), SetV({IntV(1), StrV(<<"a">>)})>> >>)

\* The values the configured agents answer with: a string, or a mapping
\* that carries the text with a set of tags.
Replies == {StrV(text) : text \in ReplyTexts} \cup {TaggedOutput(<<"a", ".">>)}

\* What a collaborator returns from ainvoke: None or its answer.
Results == {NoneV, reply}

\* ---------------------------------------------------------------- initial
Init ==
    /\ analysis_order \in KeyLists(AnalysisNames)
    /\ validation_order \in KeyLists(ValidationNames)
    /\ reply \in Replies
    /\ handler_kinds = {"none"}
    /\ draft = "builder"
    /\ tasks = Tasks
    /\ task_input \in Tasks
    /\ current_agent = None
    /\ notes = [a \in AgentNames |-> <<>>]
    /\ decisions = <<>>
    /\ retry_count = 0
    /\ total_steps = 0
    /\ max_retries = DefaultMaxRetries
    /\ max_steps = DefaultMaxSteps
    /\ final_report = Unset
    /\ history = <<>>
    /\ stage = "analysis"
    /\ pc = "idle"
    /\ phase = "analysis"
    /\ idx = 1
    /\ error = None
    /\ held = FALSE
    /\ runs = 0
    /\ fresh = TRUE
    /\ invoked = <<>>
    /\ completed = [a \in AgentNames |-> 0]
    /\ step_calls = 0
    /\ step_returns = 0
    /\ report_writes = 0
    /\ handler = "none"
    /\ task_arg = <<>>
    /\ sent = <<>>
    /\ in_flight = 0
    /\ callback = "idle"
    /\ progress_calls = <<>>
    /\ fn = "none"
    /\ arg = <<>>
    /\ res = <<>>

\* A SupervisorState as its constructor leaves it.
NewState(task, ms, mr) ==
    /\ task_input' = task
    /\ current_agent' = None
    /\ notes' = [a \in AgentNames |-> <<>>]
    /\ decisions' = <<>>
    /\ retry_count' = 0
    /\ total_steps' = 0
    /\ max_retries' = mr
    /\ max_steps' = ms
    /\ final_report' = Unset
    /\ history' = <<>>
    /\ stage' = "analysis"
    /\ completed' = [a \in AgentNames |-> 0]
    /\ step_calls' = 0
    /\ step_returns' = 0
    /\ report_writes' = 0
    /\ progress_calls' = <<>>

NoCall == pc \in {"idle", "returned", "raised"}

\* The entry of run_supervisor, up to the first `if`.
BeginRun ==
    /\ NoCall
    /\ runs < MaxRuns
    /\ runs' = runs + 1
    /\ pc' = "analysis"
    /\ phase' = "analysis"
    /\ idx' = 1
    /\ error' = None
    /\ invoked' = <<>>
    /\ handler' \in handler_kinds
    /\ task_arg' \in tasks
    /\ sent' = <<>>
    /\ UNCHANGED <<cfgVars, fnVars, in_flight, callback>>

\* run_supervisor(task_input): state is None, a default state is constructed.
RunDefault ==
    /\ BeginRun
    /\ NewState(task_arg', DefaultMaxSteps, DefaultMaxRetries)
    /\ held' = FALSE
    /\ fresh' = TRUE

\* run_supervisor(task_input, state=SupervisorState(task_input, max_steps=ms,
\* max_retries=mr)): the caller constructs the state and keeps a reference.
RunWithNewState ==
    /\ BeginRun
    /\ \E task \in tasks, ms \in 0..MaxStepLimit, mr \in 0..MaxRetryLimit :
         NewState(task, ms, mr)
    /\ held' = TRUE
    /\ fresh' = TRUE

\* A call on the existing state that begins with state.reset_retry().
RunWithExistingStateResetsRetry ==
    /\ BeginRun
    /\ runs >= 1
    /\ held
    /\ held' = TRUE
    /\ fresh' = FALSE
    /\ retry_count' = 0
    /\ UNCHANGED <<task_input, current_agent, notes, decisions, total_steps,
                   max_retries, max_steps, final_report, history, stage>>
    /\ UNCHANGED <<completed, step_calls, step_returns, report_writes,
                   progress_calls>>

\* run_supervisor(task_input, state=s) with the state object of the last call.
RunWithExistingState ==
    /\ BeginRun
    /\ runs >= 1
    /\ held
    /\ held' = TRUE
    /\ fresh' = FALSE
    /\ UNCHANGED stateVars
    /\ UNCHANGED <<completed, step_calls, step_returns, report_writes,
                   progress_calls>>

\* _update_stage
UpdateStage(s) == stage' = s

\* StepError with the step limit compared one too high.
StepErrorLateLimit(ts) ==
    IF ts > max_steps + 1 THEN "max_steps"
    ELSE IF retry_count > max_retries THEN "max_retries"
    ELSE None

\* StepError with the step limit compared with >= instead of >.
StepErrorEarlyLimit(ts) ==
    IF ts >= max_steps THEN "max_steps"
    ELSE IF retry_count > max_retries THEN "max_retries"
    ELSE None

\* StepError without the retry check.
StepErrorNoRetryCheck(ts) ==
    IF ts > max_steps THEN "max_steps" ELSE None

\* The outcome of SupervisorState.step once total_steps has become ts:
\* the error it raises, or None when it returns.
StepError(ts) ==
    IF ts > max_steps THEN "max_steps"
    ELSE IF retry_count > max_retries THEN "max_retries"
    ELSE None

\* step() that checks the limits first and counts only when it returns.
StepCheckFirst(agent) ==
    /\ current_agent' = agent
    /\ total_steps' = IF StepError(total_steps + 1) = None
                      THEN total_steps + 1 ELSE total_steps
    /\ error' = StepError(total_steps + 1)
    /\ step_calls' = step_calls + 1
    /\ step_returns' = IF StepError(total_steps + 1) = None
                       THEN step_returns + 1 ELSE step_returns

\* SupervisorState.step(agent)
Step(agent) ==
    /\ current_agent' = agent
    /\ total_steps' = total_steps + 1
    /\ error' = StepError(total_steps + 1)
    /\ step_calls' = step_calls + 1
    /\ step_returns' = IF StepError(total_steps + 1) = None
                       THEN step_returns + 1 ELSE step_returns

\* log() on note lists that all agents share (one list object for every key).
LogShared(agent, message) ==
    notes' = [a \in AgentNames |-> Append(notes[a], message)]

\* log() that replaces the agent's note list instead of appending to it.
LogReplace(agent, message) ==
    notes' = [notes EXCEPT ![agent] = <<message>>]

\* SupervisorState.log(agent, message)
Log(agent, message) ==
    notes' = [notes EXCEPT ![agent] = Append(@, message)]

\* record_decision() that keeps only the newest decision.
RecordDecisionReplace(decision) ==
    decisions' = <<decision>>

\* SupervisorState.record_decision(decision)
RecordDecision(decision) ==
    decisions' = Append(decisions, decision)

\* SupervisorState.snapshot(agent=..., result=...); the record is built after
\* log() has run, so its notes are the notes including the new one.  The
\* timestamp is left out.
SnapshotEntry(agent, result) ==
    [ step |-> total_steps,
      agent |-> agent,
      result |-> Serialise(result),
      notes |-> notes'[agent] ]

Snapshot(agent, result) ==
    history' = Append(history, SnapshotEntry(agent, result))

\* `if analysis_order:` and the stage update under it.
EnterAnalysis ==
    /\ pc = "analysis"
    /\ IF analysis_order # <<>>
       THEN /\ UpdateStage("analysis")
            /\ pc' = "loop"
       ELSE /\ UNCHANGED stage
            /\ pc' = "validation"
    /\ phase' = "analysis"
    /\ idx' = 1
    /\ UNCHANGED <<cfgVars, fnVars, cbVars, task_input, current_agent, notes, decisions, retry_count,
                   total_steps, max_retries, max_steps, final_report, history,
                   error, held, runs, fresh, obsVars>>

\* `if validation_order:` and the stage update under it.
EnterValidation ==
    /\ pc = "validation"
    /\ IF validation_order # <<>>
       THEN /\ UpdateStage("validation")
            /\ pc' = "loop"
       ELSE /\ UNCHANGED stage
            /\ pc' = "final"
    /\ phase' = "validation"
    /\ idx' = 1
    /\ UNCHANGED <<cfgVars, fnVars, cbVars, task_input, current_agent, notes, decisions, retry_count,
                   total_steps, max_retries, max_steps, final_report, history,
                   error, held, runs, fresh, obsVars>>

\* LoopOrder with the two key lists exchanged.
LoopOrderSwapped == IF phase = "analysis" THEN validation_order ELSE analysis_order

\* The list the running `for` loop iterates.
LoopOrder == IF phase = "analysis" THEN analysis_order ELSE validation_order

\* _AGENT_FOCUS.get(agent_name, default)
Focus(agent) ==
    IF agent \in {"market", "policy", "oem", "supply_chain", "finance",
                  "cross_layer_validation", "report_quality_check",
                  "hallucination_check"}
    THEN <<"focus of ", agent>>
    ELSE <<"your designated analysis scope">>

\* _build_agent_message: the content of the message for the agent.
BuildAgentMessage(agent, task) ==
    task \o <<NL, NL>> \o Focus(agent) \o <<"(instruction)">>
        \o (IF agent = "oem" THEN <<"(urls)">> ELSE <<>>)

\* _invoke_agent up to its await: step(), then agent.ainvoke is called with
\* the message built from the task_input argument of the call.  When
\* step() raises, the exception leaves _invoke_agent and run_supervisor.
InvokeAgent ==
    /\ pc = "loop"
    /\ idx <= Len(LoopOrder)
    /\ Step(LoopOrder[idx])
    /\ IF StepError(total_steps + 1) = None
       THEN /\ pc' = "await"
            /\ invoked' = Append(invoked, LoopOrder[idx])
            /\ sent' = Append(sent, BuildAgentMessage(LoopOrder[idx], task_arg))
            /\ in_flight' = in_flight + 1
       ELSE /\ pc' = "raised"
            /\ UNCHANGED <<invoked, sent, in_flight>>
    /\ UNCHANGED <<cfgVars, fnVars, task_input, notes, decisions, retry_count, max_retries,
                   max_steps, final_report, history, stage, phase, idx, held,
                   runs, fresh, completed, report_writes, handler,
                   task_arg, callback, progress_calls>>

\* The result dict _invoke_agent hands to snapshot().
SnapshotResult(summary, result) ==
    DictV(<< <<StrV(<<"summary">>), StrV(summary)>>, <<StrV(<<"raw">>), result>> >>)

\* CallProgressHandler that does not await the coroutine of a coroutine
\* function: the loop goes on while the callback runs.
CallProgressHandlerNoAwait(entry) ==
    IF handler = "none"
    THEN /\ pc' = "loop"
         /\ idx' = idx + 1
         /\ UNCHANGED <<error, callback, progress_calls>>
    ELSE /\ progress_calls' = Append(progress_calls, entry)
         /\ callback' = IF handler = "async" THEN "running" ELSE callback
         /\ pc' = "loop"
         /\ idx' = idx + 1
         /\ UNCHANGED error

\* The end of _invoke_agent once the snapshot is taken: progress_handler is
\* called with the record.  A plain function returns or raises at once; a
\* coroutine function returns a coroutine, which is awaited.
CallProgressHandler(entry) ==
    IF handler = "none"
    THEN /\ pc' = "loop"
         /\ idx' = idx + 1
         /\ UNCHANGED <<error, callback, progress_calls>>
    ELSE /\ progress_calls' = Append(progress_calls, entry)
         /\ IF handler = "async"
            THEN /\ pc' = "progress"
                 /\ callback' = "running"
                 /\ UNCHANGED <<idx, error>>
            ELSE /\ UNCHANGED callback
                 /\ \/ /\ pc' = "loop"
                       /\ idx' = idx + 1
                       /\ UNCHANGED error
                    \/ /\ pc' = "raised"
                       /\ error' = "progress"
                       /\ UNCHANGED idx

\* agent.ainvoke returns: the rest of _invoke_agent of draft d, then the loop
\* advances.  snapshot() raises when the result cannot be serialised, after
\* log() and record_decision() have run.  The workflow.py draft calls
\* state.add_to_history after snapshot(); SupervisorState has no such
\* attribute, so the call raises AttributeError.
AgentReturnsIn(d) ==
    /\ pc = "await"
    /\ in_flight' = in_flight - 1
    /\ \E result \in Results :
         LET agent == LoopOrder[idx]
             summary == SummariseAgentResult(result)
             payload == SnapshotResult(summary, result)
         IN  /\ Log(agent, summary)
             /\ RecordDecision(summary)
             /\ completed' = [completed EXCEPT ![agent] = @ + 1]
             /\ IF Serialise(payload).t = "raise"
                THEN /\ pc' = "raised"
                     /\ error' = "snapshot"
                     /\ UNCHANGED <<history, idx, callback, progress_calls>>
                ELSE /\ Snapshot(agent, payload)
                     /\ IF d = "workflow"
                        THEN /\ pc' = "raised"
                             /\ error' = "add_to_history"
                             /\ UNCHANGED <<idx, callback, progress_calls>>
                        ELSE CallProgressHandler(SnapshotEntry(agent, payload))
    /\ UNCHANGED <<cfgVars, fnVars, task_input, current_agent, retry_count, total_steps,
                   max_retries, max_steps, final_report, stage, phase,
                   held, runs, fresh, invoked, step_calls, step_returns,
                   report_writes, handler, task_arg, sent>>

\* agent.ainvoke returns in the draft that runs.
AgentReturns == AgentReturnsIn(draft)

\* `await maybe`: the progress coroutine finishes, the loop advances.
ProgressReturns ==
    /\ pc = "progress"
    /\ callback' = "idle"
    /\ idx' = idx + 1
    /\ pc' = "loop"
    /\ UNCHANGED <<cfgVars, fnVars, stateVars, phase, error, held, runs, fresh,
                   obsVars, handler, task_arg, sent, in_flight, progress_calls>>

\* `await maybe`: the progress coroutine raises; the exception leaves
\* _invoke_agent and run_supervisor.
ProgressRaises ==
    /\ pc = "progress"
    /\ callback' = "idle"
    /\ error' = "progress"
    /\ pc' = "raised"
    /\ UNCHANGED <<cfgVars, fnVars, stateVars, phase, idx, held, runs, fresh,
                   obsVars, handler, task_arg, sent, in_flight, progress_calls>>

\* An except clause that swallows the failure and goes on with the next agent.
AgentRaisesSwallowed ==
    /\ pc = "await"
    /\ in_flight' = in_flight - 1
    /\ retry_count' = retry_count + 1
    /\ error' = "agent"
    /\ idx' = idx + 1
    /\ pc' = "loop"
    /\ UNCHANGED <<cfgVars, fnVars, handler, task_arg, sent, callback, progress_calls, task_input, current_agent, notes, decisions, total_steps,
                   max_retries, max_steps, final_report, history, stage, phase,
                   held, runs, fresh, obsVars>>

\* agent.ainvoke raises: the except clause of _invoke_agent, which re-raises.
AgentRaises ==
    /\ pc = "await"
    /\ in_flight' = in_flight - 1
    /\ retry_count' = retry_count + 1
    /\ error' = "agent"
    /\ pc' = "raised"
    /\ UNCHANGED <<cfgVars, fnVars, handler, task_arg, sent, callback, progress_calls, task_input, current_agent, notes, decisions, total_steps,
                   max_retries, max_steps, final_report, history, stage, phase,
                   idx, held, runs, fresh, obsVars>>

\* A validation loop that starts over when it is exhausted.
LoopExitRepeats ==
    /\ pc = "loop"
    /\ idx > Len(LoopOrder)
    /\ pc' = "validation"
    /\ UNCHANGED <<cfgVars, fnVars, cbVars, stateVars, phase, idx, error, held, runs, fresh,
                   obsVars>>

\* A `for` loop of run_supervisor is exhausted.
LoopExit ==
    /\ pc = "loop"
    /\ idx > Len(LoopOrder)
    /\ pc' = IF phase = "analysis" THEN "validation" ELSE "final"
    /\ UNCHANGED <<cfgVars, fnVars, cbVars, stateVars, phase, idx, error, held, runs, fresh,
                   obsVars>>

\* _update_stage(supervisor_state, "final")
EnterFinal ==
    /\ pc = "final"
    /\ UpdateStage("final")
    /\ pc' = "compile"
    /\ UNCHANGED <<cfgVars, fnVars, cbVars, task_input, current_agent, notes, decisions, retry_count,
                   total_steps, max_retries, max_steps, final_report, history,
                   phase, idx, error, held, runs, fresh, obsVars>>

\* The report assignment placed before the stage update to "final".
CompileBeforeFinal ==
    /\ pc \in {"final", "compile"}
    /\ final_report' = Some(CompileFinalReport)
    /\ report_writes' = report_writes + 1
    /\ pc' = "finish"
    /\ UNCHANGED <<cfgVars, fnVars, cbVars, task_input, current_agent, notes, decisions, retry_count,
                   total_steps, max_retries, max_steps, history, stage, phase,
                   idx, error, held, runs, fresh, invoked, completed,
                   step_calls, step_returns>>

\* supervisor_state.final_report = _compile_final_report(...)
Compile ==
    /\ pc = "compile"
    /\ final_report' = Some(CompileFinalReport)
    /\ report_writes' = report_writes + 1
    /\ pc' = "finish"
    /\ UNCHANGED <<cfgVars, fnVars, cbVars, task_input, current_agent, notes, decisions, retry_count,
                   total_steps, max_retries, max_steps, history, stage, phase,
                   idx, error, held, runs, fresh, invoked, completed,
                   step_calls, step_returns>>

\* A last stage update that puts the state back to "analysis".
FinishResetsStage ==
    /\ pc = "finish"
    /\ UpdateStage("analysis")
    /\ pc' = "returned"
    /\ held' = TRUE
    /\ UNCHANGED <<cfgVars, fnVars, cbVars, task_input, current_agent, notes, decisions, retry_count,
                   total_steps, max_retries, max_steps, final_report, history,
                   phase, idx, error, runs, fresh, obsVars>>

\* _update_stage(supervisor_state, "done"); return supervisor_state
Finish ==
    /\ pc = "finish"
    /\ UpdateStage("done")
    /\ pc' = "returned"
    /\ held' = TRUE
    /\ UNCHANGED <<cfgVars, fnVars, cbVars, task_input, current_agent, notes, decisions, retry_count,
                   total_steps, max_retries, max_steps, final_report, history,
                   phase, idx, error, runs, fresh, obsVars>>

Next ==
    \/ RunDefault
    \/ RunWithNewState
    \/ RunWithExistingState
    \/ EnterAnalysis
    \/ InvokeAgent
    \/ AgentReturns
    \/ AgentRaises
    \/ LoopExit
    \/ EnterValidation
    \/ EnterFinal
    \/ Compile
    \/ Finish

Spec == Init /\ [][Next]_vars

\* ------------------------------------- workflows with a progress handler
\* Workflows of either draft with one analysis agent and at most one
\* validation agent, whose callers pass any kind of progress_handler to
\* run_supervisor; the agents answer with a clean sentence.
InitProgress ==
    /\ analysis_order = <<"market">>
    /\ validation_order \in KeyLists(ValidationNames)
    /\ reply = StrV(<<"a", ".">>)
    /\ handler_kinds = Handlers
    /\ draft \in Drafts
    /\ tasks = Tasks
    /\ task_input \in Tasks
    /\ current_agent = None
    /\ notes = [a \in AgentNames |-> <<>>]
    /\ decisions = <<>>
    /\ retry_count = 0
    /\ total_steps = 0
    /\ max_retries = DefaultMaxRetries
    /\ max_steps = DefaultMaxSteps
    /\ final_report = Unset
    /\ history = <<>>
    /\ stage = "analysis"
    /\ pc = "idle"
    /\ phase = "analysis"
    /\ idx = 1
    /\ error = None
    /\ held = FALSE
    /\ runs = 0
    /\ fresh = TRUE
    /\ invoked = <<>>
    /\ completed = [a \in AgentNames |-> 0]
    /\ step_calls = 0
    /\ step_returns = 0
    /\ report_writes = 0
    /\ handler = "none"
    /\ task_arg = <<>>
    /\ sent = <<>>
    /\ in_flight = 0
    /\ callback = "idle"
    /\ progress_calls = <<>>
    /\ fn = "none"
    /\ arg = <<>>
    /\ res = <<>>

NextProgress ==
    \/ Next
    \/ ProgressReturns
    \/ ProgressRaises

SpecProgress == InitProgress /\ [][NextProgress]_vars

TypeOK ==
    /\ pc \in {"idle", "analysis", "loop", "await", "validation", "final",
               "compile", "finish", "returned", "raised", "progress"}
    /\ stage \in Range(Stages)
    /\ total_steps \in Nat
    /\ retry_count \in Nat
    /\ error \in {None, "max_steps", "max_retries", "agent", "snapshot",
                  "add_to_history", "progress"}
    /\ in_flight \in {0, 1}
    /\ callback \in {"idle", "running"}
    /\ task_input \in tasks
    /\ task_arg \in tasks \cup {<<>>}
    /\ Len(sent) <= Len(invoked)


\* ------------------------------------------------- calls that are carried on
\* The steps of a call of run_supervisor in progress, but for the assignment
\* of the report: the statements of the coroutine, the return or failure of
\* the awaited ainvoke, and the return or failure of the progress callback.
RunSteps ==
    \/ EnterAnalysis
    \/ InvokeAgent
    \/ AgentReturns
    \/ AgentRaises
    \/ LoopExit
    \/ EnterValidation
    \/ EnterFinal
    \/ Finish
    \/ ProgressReturns
    \/ ProgressRaises

\* The step that Compile takes, told by the positions it links: the only
\* step of run_supervisor from "compile" to "finish".
CompileStep == pc = "compile" /\ pc' = "finish"

\* The event loop keeps running the coroutine, and every awaited ainvoke and
\* every progress callback eventually returns or raises.
SpecTerminates ==
    /\ InitProgress
    /\ [][NextProgress]_vars
    /\ WF_vars(RunSteps)
    /\ WF_pc(CompileStep)

\* ---------------------------------------------------- callers with two tasks
\* One analysis agent answers with a clean sentence; the caller asks one of
\* two questions in each call and may pass a state made for the other one.
InitTasks ==
    /\ analysis_order = <<"market">>
    /\ validation_order = <<>>
    /\ reply = StrV(<<"a", ".">>)
    /\ handler_kinds = {"none"}
    /\ draft = "builder"
    /\ tasks = TwoTasks
    /\ task_input \in TwoTasks
    /\ current_agent = None
    /\ notes = [a \in AgentNames |-> <<>>]
    /\ decisions = <<>>
    /\ retry_count = 0
    /\ total_steps = 0
    /\ max_retries = DefaultMaxRetries
    /\ max_steps = DefaultMaxSteps
    /\ final_report = Unset
    /\ history = <<>>
    /\ stage = "analysis"
    /\ pc = "idle"
    /\ phase = "analysis"
    /\ idx = 1
    /\ error = None
    /\ held = FALSE
    /\ runs = 0
    /\ fresh = TRUE
    /\ invoked = <<>>
    /\ completed = [a \in AgentNames |-> 0]
    /\ step_calls = 0
    /\ step_returns = 0
    /\ report_writes = 0
    /\ handler = "none"
    /\ task_arg = <<>>
    /\ sent = <<>>
    /\ in_flight = 0
    /\ callback = "idle"
    /\ progress_calls = <<>>
    /\ fn = "none"
    /\ arg = <<>>
    /\ res = <<>>

SpecTasks == InitTasks /\ [][Next]_vars

\* ------------------------------------------------- _clean_text on its own
\* No workflow is configured and no call of run_supervisor is made.
NoPipeline ==
    /\ analysis_order = <<>>
    /\ validation_order = <<>>
    /\ reply = NoneV
    /\ handler_kinds = {"none"}
    /\ draft = "builder"
    /\ tasks = {}
    /\ task_input = <<>>
    /\ current_agent = None
    /\ notes = [a \in AgentNames |-> <<>>]
    /\ decisions = <<>>
    /\ retry_count = 0
    /\ total_steps = 0
    /\ max_retries = DefaultMaxRetries
    /\ max_steps = DefaultMaxSteps
    /\ final_report = Unset
    /\ history = <<>>
    /\ stage = "analysis"
    /\ pc = "idle"
    /\ phase = "analysis"
    /\ idx = 1
    /\ error = None
    /\ held = FALSE
    /\ runs = 0
    /\ fresh = TRUE
    /\ invoked = <<>>
    /\ completed = [a \in AgentNames |-> 0]
    /\ step_calls = 0
    /\ step_returns = 0
    /\ report_writes = 0
    /\ handler = "none"
    /\ task_arg = <<>>
    /\ sent = <<>>
    /\ in_flight = 0
    /\ callback = "idle"
    /\ progress_calls = <<>>

pipelineVars == <<cfgVars, stateVars, ctlVars, obsVars, cbVars>>

\* The characters of the texts handed to _clean_text.
CleanAlphabet == {"a", " ", NL, "#", "-", ".", Backtick}

\* All texts over alphabet of length at most n.
TextsUpTo(alphabet, n) == UNION {[1..k -> alphabet] : k \in 0..n}

\* The sentence limits _clean_text is called with.
CleanLimits == {1, 2, SentenceLimit}

InitClean ==
    /\ NoPipeline
    /\ fn = "none"
    /\ arg \in [text : TextsUpTo(CleanAlphabet, MaxTextLen), limit : CleanLimits]
    /\ res = <<>>

\* cleaned = _clean_text(s, sentence_limit=limit)
CleanFirst ==
    /\ fn = "none"
    /\ res' = <<CleanTextLimit(arg.text, arg.limit)>>
    /\ fn' = "_clean_text"
    /\ UNCHANGED <<pipelineVars, arg>>

\* _clean_text(cleaned, sentence_limit=limit)
CleanAgain ==
    /\ fn = "_clean_text"
    /\ Len(res) = 1
    /\ res' = Append(res, CleanTextLimit(res[1], arg.limit))
    /\ UNCHANGED <<pipelineVars, arg, fn>>

NextClean == CleanFirst \/ CleanAgain

SpecClean == InitClean /\ [][NextClean]_vars

\* --------------------------------------- _compile_final_report on its own
\* The texts of the results recorded before a report is compiled: an empty
\* string, a clean sentence, a heading line, a text that puts a section
\* number at the start of a line, and a URL followed by a full stop.
NoteTexts == { <<>>, <<"a", ".">>, <<"#", "a">>, <<NL, "2", ".", " ", "a">>,
               <<Scheme, "a", ".">> }

\* The results recorded: None, the strings, and a message object whose
\* content holds a URL followed by a full stop.
ReportResults ==
    {NoneV} \cup {StrV(text) : text \in NoteTexts}
            \cup {MessageV(<<Scheme, "a", ".">>)}

\* The task inputs of the states compiled.
ReportTasks == Tasks \cup { <<NL, "2", ".", " ", "a">> }

\* A SupervisorState(task_input=...) in the hands of a caller that compiles
\* reports for a workflow with the given validation keys.
InitReport ==
    /\ analysis_order = <<>>
    /\ validation_order \in KeyLists(ValidationNames)
    /\ reply = NoneV
    /\ handler_kinds = {"none"}
    /\ draft = "builder"
    /\ tasks = ReportTasks
    /\ task_input \in ReportTasks
    /\ current_agent = None
    /\ notes = [a \in AgentNames |-> <<>>]
    /\ decisions = <<>>
    /\ retry_count = 0
    /\ total_steps = 0
    /\ max_retries = DefaultMaxRetries
    /\ max_steps = DefaultMaxSteps
    /\ final_report = Unset
    /\ history = <<>>
    /\ stage = "analysis"
    /\ pc = "idle"
    /\ phase = "analysis"
    /\ idx = 1
    /\ error = None
    /\ held = TRUE
    /\ runs = 0
    /\ fresh = TRUE
    /\ invoked = <<>>
    /\ completed = [a \in AgentNames |-> 0]
    /\ step_calls = 0
    /\ step_returns = 0
    /\ report_writes = 0
    /\ handler = "none"
    /\ task_arg = <<>>
    /\ sent = <<>>
    /\ in_flight = 0
    /\ callback = "idle"
    /\ progress_calls = <<>>
    /\ fn = "none"
    /\ arg = <<>>
    /\ res = <<>>

\* One agent step on the state, as _invoke_agent leaves it when ainvoke
\* has returned result: step(), log(), record_decision(), snapshot().
RecordResult ==
    /\ fn = "none"
    /\ Len(decisions) < MaxNotes
    /\ \E agent \in AgentNames, result \in ReportResults :
         LET summary == SummariseAgentResult(result)
         IN  /\ Step(agent)
             /\ Log(agent, summary)
             /\ RecordDecision(summary)
             /\ history' = Append(history,
                    [SnapshotEntry(agent, SnapshotResult(summary, result))
                        EXCEPT !.step = total_steps'])
             /\ completed' = [completed EXCEPT ![agent] = @ + 1]
    /\ UNCHANGED <<cfgVars, cbVars, fnVars, task_input, retry_count, max_retries,
                   max_steps, final_report, stage, pc, phase, idx, held, runs,
                   fresh, invoked, report_writes>>

\* A compiler that empties the note lists it has read.
CompileReportConsuming ==
    /\ fn = "none"
    /\ fn' = "_compile_final_report"
    /\ res' = <<CompileFinalReport>>
    /\ notes' = [a \in AgentNames |-> <<>>]
    /\ UNCHANGED <<cfgVars, cbVars, ctlVars, obsVars, arg, task_input, current_agent,
                   decisions, retry_count, total_steps, max_retries, max_steps,
                   final_report, history, stage>>

\* report = _compile_final_report(state, analysis_order, validation_order)
CompileReport ==
    /\ fn = "none"
    /\ fn' = "_compile_final_report"
    /\ res' = <<CompileFinalReport>>
    /\ UNCHANGED <<pipelineVars, arg>>

\* _compile_final_report(state, ...) once more
CompileReportAgain ==
    /\ fn = "_compile_final_report"
    /\ Len(res) = 1
    /\ res' = Append(res, CompileFinalReport)
    /\ UNCHANGED <<pipelineVars, arg, fn>>

NextReport == RecordResult \/ CompileReport \/ CompileReportAgain

SpecReport == InitReport /\ [][NextReport]_vars

\* ------------------------------------------------- _serialise on its own
\* Values without containers: None, an int, a str, and an object of a class
\* that is none of those (str() gives its text).
Atoms == {NoneV, IntV(1), StrV(<<"a">>), ObjV(Unset, <<"<object>">>)}

\* The keys of the mappings: a str and an int.
Keys == {StrV(<<"k">>), IntV(1)}

\* The values nested at most d containers deep: sets of atoms, lists of at
\* most one value and mappings of at most one item.
RECURSIVE ValuesUpTo(_)
ValuesUpTo(d) ==
    IF d = 0 THEN Atoms
    ELSE LET inner == ValuesUpTo(d - 1)
         IN  Atoms
             \cup {SetV(elems) : elems \in SUBSET Atoms}
             \cup {ListV(<<>>)} \cup {ListV(<<x>>) : x \in inner}
             \cup {DictV(<< <<k, x>> >>) : k \in Keys, x \in inner}

InitSerialise ==
    /\ NoPipeline
    /\ fn = "none"
    /\ arg \in ValuesUpTo(MaxDepth)
    /\ res = <<>>

\* _serialise(value)
ApplySerialise ==
    /\ fn = "none"
    /\ res' = <<Serialise(arg)>>
    /\ fn' = "_serialise"
    /\ UNCHANGED <<pipelineVars, arg>>

NextSerialise == ApplySerialise

SpecSerialise == InitSerialise /\ [][NextSerialise]_vars

\* ------------------------------------ _summarise_agent_result on its own
\* The contents of the objects that carry a content attribute: strings
\* (empty, blank, plain), lists of parts, and values that are neither.
Contents ==
    { StrV(<<>>), StrV(<<" ">>), StrV(<<" ", NL>>), StrV(<<"a">>), ListV(<<>>),
      ListV(<<StrV(<<"a">>), StrV(<<>>), StrV(<<"b">>)>>), NoneV }

\* Responses without nesting: None, strings, ints, an object without
\* content and objects with content.
PlainResponses ==
    { NoneV, StrV(<<>>), StrV(<<"a">>), IntV(0), IntV(1),
      ObjV(Unset, <<"<object>">>) }
    \cup {ObjV(Some(content), <<"<message>">>) : content \in Contents}

\* Responses nested at most d deep: lists (also with an empty last element)
\* and mappings with "messages", with "output", with both, with neither.
RECURSIVE ResponsesUpTo(_)
ResponsesUpTo(d) ==
    IF d = 0 THEN PlainResponses
    ELSE LET inner == ResponsesUpTo(d - 1)
             lists == {ListV(<<>>)} \cup {ListV(<<x>>) : x \in inner}
         IN  PlainResponses
             \cup lists
             \cup {ListV(<<x, e>>) : x \in inner, e \in {NoneV, StrV(<<>>)}}
             \cup {DictV(<< <<StrV(<<"messages">>), m>> >>) : m \in lists}
             \cup {DictV(<< <<StrV(<<"output">>), x>> >>) : x \in inner}
             \cup {DictV(<< <<StrV(<<"messages">>), m>>,
                            <<StrV(<<"output">>), StrV(<<"b">>)>> >>) : m \in lists}
             \cup {DictV(<< <<StrV(<<"x">>), IntV(1)>> >>)}

InitSummarise ==
    /\ NoPipeline
    /\ fn = "none"
    /\ arg \in ResponsesUpTo(MaxDepth)
    /\ res = <<>>

\* summary = _summarise_agent_result(result)
ApplySummarise ==
    /\ fn = "none"
    /\ res' = <<SummariseAgentResult(arg)>>
    /\ fn' = "_summarise_agent_result"
    /\ UNCHANGED <<pipelineVars, arg>>

NextSummarise == ApplySummarise

SpecSummarise == InitSummarise /\ [][NextSummarise]_vars

\* ------------------------------------------- print/app.py: _format_sections
\* Bound on the number of lines of a report text handed to _format_sections.
MaxLines == 4

\* The lines of the report texts: a blank line, a line of spaces, a rule, two
\* numbered headers, an indented item, an item with a link and markup, a
\* labelled paragraph and a lone dash.
InputLines ==
    { <<>>,
      <<" ">>,
      <<"=", "=", "=">>,
      <<"1", ".", " ", "T">>,
      <<"2", ".", " ", "U">>,
      <<" ", "-", " ", "a">>,
      <<"-", " ", Scheme, "<", ")">>,
      <<"p", ":", " ", "q">>,
      <<"-">> }

\* The report texts: up to MaxLines lines joined by newlines, with or
\* without a newline at the end.
InputTexts ==
    LET lists == UNION {[1..n -> InputLines] : n \in 0..MaxLines}
    IN  {Join(<<NL>>, l) : l \in lists}
            \cup {Join(<<NL>>, l) \o <<NL>> : l \in lists}

\* str.splitlines() (line breaks are newlines): no empty last line after a
\* newline at the end, and no line at all for the empty string.
RECURSIVE SplitLinesPy(_)
SplitLinesPy(s) ==
    IF s = <<>> THEN <<>>
    ELSE LET k == LineEnd(s, 1)
         IN  <<SubSeq(s, 1, k - 1)>> \o SplitLinesPy(SubSeq(s, k + 1, Len(s)))

\* str.startswith(prefix)
StartsWith(s, prefix) ==
    Len(prefix) <= Len(s) /\ SubSeq(s, 1, Len(prefix)) = prefix

\* \d
DigitSymbols == {"0", "1", "2", "3", "4", "5", "6", "7", "8", "9"}

\* First index j >= i of s that does not hold a digit (Len(s)+1 if none).
RECURSIVE SkipDigits(_, _)
SkipDigits(s, i) ==
    IF i <= Len(s) /\ s[i] \in DigitSymbols THEN SkipDigits(s, i + 1) ELSE i

\* _SECTION_HEADER_PATTERN.match(stripped): Unset, or the groups index and
\* title.  \s+ takes all the whitespace after the full stop and gives back
\* what .+ needs.
HeaderMatch(stripped) ==
    LET d == SkipDigits(stripped, 1)
        t == SkipSpace(stripped, d + 1)
    IN  IF /\ d > 1
           /\ d <= Len(stripped) /\ stripped[d] = "."
           /\ t > d + 1
           /\ Len(stripped) >= d + 2
        THEN Some([index |-> SubSeq(stripped, 1, d - 1),
                   title |-> IF t <= Len(stripped)
                             THEN SubSeq(stripped, t, Len(stripped))
                             ELSE SubSeq(stripped, Len(stripped), Len(stripped))])
        ELSE Unset

\* markupsafe.escape on one symbol
EscapeSymbol(c) ==
    CASE c = "&" -> "&amp;"
      [] c = "<" -> "&lt;"
      [] c = ">" -> "&gt;"
      [] c = "'" -> "&#39;"
      [] c = "\"" -> "&#34;"
      [] OTHER -> c

\* markupsafe.escape(text)
Escape(s) == [i \in DOMAIN s |-> EscapeSymbol(s[i])]

\* [^\s)] of _URL_PATTERN
LinkChar(c) == c \notin Whitespace \cup {")"}

\* First index j >= i of s that does not hold a character of a link.
RECURSIVE LinkEnd(_, _)
LinkEnd(s, i) ==
    IF i <= Len(s) /\ LinkChar(s[i]) THEN LinkEnd(s, i + 1) ELSE i

\* The fragments of _escape_and_linkify from index i: escaped text, and an
\* anchor for every match of _URL_PATTERN.
RECURSIVE LinkifyFrom(_, _)
LinkifyFrom(s, i) ==
    IF i > Len(s) THEN <<>>
    ELSE IF s[i] = Scheme /\ i + 1 <= Len(s) /\ LinkChar(s[i + 1])
         THEN LET j == LinkEnd(s, i + 1)
                  url == Escape(SubSeq(s, i, j - 1))
              IN  <<"<a href=">> \o url \o <<">">> \o url \o <<"</a>">>
                      \o LinkifyFrom(s, j)
         ELSE <<EscapeSymbol(s[i])>> \o LinkifyFrom(s, i + 1)

\* _escape_and_linkify(text)
EscapeAndLinkify(text) == LinkifyFrom(Strip(text), 1)

\* _format_list_item(text)
FormatListItem(text) == EscapeAndLinkify(text)

\* First index j >= i of s that holds a colon (Len(s)+1 if none).
RECURSIVE ColonAt(_, _)
ColonAt(s, i) ==
    IF i <= Len(s) /\ s[i] # ":" THEN ColonAt(s, i + 1) ELSE i

\* _format_paragraph(text): a label before the first colon is set in
\* <strong> when a value follows it.
FormatParagraph(text) ==
    LET k == ColonAt(text, 1)
        v == SkipSpace(text, k + 1)
    IN  IF k > 1 /\ k < Len(text) /\ NL \notin Range(text)
        THEN <<"<strong>">> \o Escape(SubSeq(text, 1, k - 1))
                 \o <<":", "</strong>", " ">>
                 \o EscapeAndLinkify(SubSeq(text, IF v <= Len(text) THEN v ELSE Len(text),
                                            Len(text)))
        ELSE EscapeAndLinkify(text)

\* _format_blocks on one block: the formatted block, or nothing.
FormatBlock(block) ==
    IF block.type = "list"
    THEN LET kept == SelectSeq(block.entries, LAMBDA item : item # <<>>)
             items == [i \in DOMAIN kept |-> FormatListItem(kept[i])]
         IN  IF items # <<>> THEN << [type |-> "list", entries |-> items] >>
             ELSE <<>>
    ELSE IF Strip(block.text) # <<>>
         THEN << [type |-> "paragraph", html |-> FormatParagraph(Strip(block.text))] >>
         ELSE <<>>

\* _format_blocks(blocks)
RECURSIVE FormatBlocks(_)
FormatBlocks(blocks) ==
    IF blocks = <<>> THEN <<>>
    ELSE FormatBlock(Head(blocks)) \o FormatBlocks(Tail(blocks))

\* The lines _format_sections loops over, and the line at the loop's position.
TextLines == SplitLinesPy(arg)
StrippedLine == Strip(RStripSpace(TextLines[res.pos]))
Looping == fn = "_format_sections:for" /\ res.pos <= Len(TextLines)

\* current_section["blocks"].append({"type": "list", ...}); list_buffer.clear()
\* when list_buffer is not empty.
Flushed(section, buffer) ==
    IF buffer # <<>>
    THEN [section EXCEPT !.blocks = Append(@, [type |-> "list", entries |-> buffer])]
    ELSE section

InitFormat ==
    /\ NoPipeline
    /\ fn = "none"
    /\ arg \in InputTexts
    /\ res = <<>>

\* _format_sections(report_text) up to the for loop
BeginFormat ==
    /\ fn = "none"
    /\ fn' = "_format_sections:for"
    /\ res' = [pos |-> 1, sections |-> <<>>, current_section |-> Unset,
               list_buffer |-> <<>>]
    /\ UNCHANGED <<pipelineVars, arg>>

\* A blank line that leaves a pending list as it is.
BlankLineKeepsList ==
    /\ Looping
    /\ StrippedLine = <<>>
    /\ res' = [res EXCEPT !.pos = @ + 1]
    /\ UNCHANGED <<pipelineVars, fn, arg>>

\* `if not stripped:` the pending list is closed.
BlankLine ==
    /\ Looping
    /\ StrippedLine = <<>>
    /\ res' = IF res.current_section # Unset /\ res.list_buffer # <<>>
              THEN [res EXCEPT !.pos = @ + 1,
                               !.current_section =
                                   Some(Flushed(res.current_section[1], res.list_buffer)),
                               !.list_buffer = <<>>]
              ELSE [res EXCEPT !.pos = @ + 1]
    /\ UNCHANGED <<pipelineVars, fn, arg>>

\* `if stripped.startswith("==="):`
RuleLine ==
    /\ Looping
    /\ StrippedLine # <<>>
    /\ StartsWith(StrippedLine, <<"=", "=", "=">>)
    /\ res' = [res EXCEPT !.pos = @ + 1]
    /\ UNCHANGED <<pipelineVars, fn, arg>>

\* `if header_match:` the section in progress is closed and a new one begun.
HeaderLine ==
    /\ Looping
    /\ StrippedLine # <<>>
    /\ ~StartsWith(StrippedLine, <<"=", "=", "=">>)
    /\ HeaderMatch(StrippedLine) # Unset
    /\ LET m == HeaderMatch(StrippedLine)[1]
           closed == IF res.current_section # Unset
                     THEN Append(res.sections,
                                 Flushed(res.current_section[1], res.list_buffer))
                     ELSE res.sections
       IN  res' = [pos |-> res.pos + 1,
                   sections |-> closed,
                   current_section |-> Some([index |-> m.index, title |-> m.title,
                                             blocks |-> <<>>]),
                   list_buffer |-> IF res.current_section # Unset THEN <<>>
                                   ELSE res.list_buffer]
    /\ UNCHANGED <<pipelineVars, fn, arg>>

\* A line that is not blank, not a rule and not a header.
BodyLine ==
    /\ Looping
    /\ StrippedLine # <<>>
    /\ ~StartsWith(StrippedLine, <<"=", "=", "=">>)
    /\ HeaderMatch(StrippedLine) = Unset

\* `if not current_section:` lines before the first numbered section.
LineBeforeSections ==
    /\ BodyLine
    /\ res.current_section = Unset
    /\ res' = [res EXCEPT !.pos = @ + 1]
    /\ UNCHANGED <<pipelineVars, fn, arg>>

\* `if stripped.startswith("- "):`
ItemLine ==
    /\ BodyLine
    /\ res.current_section # Unset
    /\ StartsWith(StrippedLine, <<"-", " ">>)
    /\ res' = [res EXCEPT !.pos = @ + 1,
                          !.list_buffer =
                              Append(@, Strip(SubSeq(StrippedLine, 3, Len(StrippedLine))))]
    /\ UNCHANGED <<pipelineVars, fn, arg>>

\* The end of the loop body: the pending list is closed and the line is
\* added as a paragraph.
ParagraphLine ==
    /\ BodyLine
    /\ res.current_section # Unset
    /\ ~StartsWith(StrippedLine, <<"-", " ">>)
    /\ res' = [res EXCEPT !.pos = @ + 1,
                          !.current_section =
                              Some([Flushed(res.current_section[1], res.list_buffer)
                                       EXCEPT !.blocks =
                                           Append(@, [type |-> "paragraph",
                                                      text |-> StrippedLine])]),
                          !.list_buffer = <<>>]
    /\ UNCHANGED <<pipelineVars, fn, arg>>

\* After the loop: the last section is closed, the blocks of every section
\* are formatted, and the sections are returned.
EndOfInput ==
    /\ fn = "_format_sections:for"
    /\ res.pos > Len(TextLines)
    /\ LET sections == IF res.current_section # Unset
                       THEN Append(res.sections,
                                   Flushed(res.current_section[1], res.list_buffer))
                       ELSE res.sections
       IN  res' = << [i \in DOMAIN sections |->
                         [sections[i] EXCEPT !.blocks = FormatBlocks(@)]] >>
    /\ fn' = "_format_sections"
    /\ UNCHANGED <<pipelineVars, arg>>

NextFormat ==
    \/ BeginFormat
    \/ BlankLine
    \/ RuleLine
    \/ HeaderLine
    \/ LineBeforeSections
    \/ ItemLine
    \/ ParagraphLine
    \/ EndOfInput

SpecFormat == InitFormat /\ [][NextFormat]_vars

\* --------------------------------- supervisor.py: the LLM-routed graph
\* Bound on max_total_steps of build_supervisor_graph.
MaxTotalSteps == 3

\* The member agents of the graph, and the routes the supervisor runnable
\* may emit: a member, a label that is no member, or no route at all.
Members == {"market", "policy"}
Routes == Members \cup {"FINISH", None}

\* SupervisorState.check_loop_safeguards with the step limit compared with >.
CheckLoopSafeguardsLate(s) ==
    IF s.total_steps > s.max_total_steps THEN "max_total_steps"
    ELSE IF s.active_agent # None /\ s.retry_tracker[s.active_agent] > s.max_retries
         THEN "max_retries"
    ELSE None

\* SupervisorState.check_loop_safeguards: the error it raises, or None.
CheckLoopSafeguards(s) ==
    IF s.total_steps >= s.max_total_steps THEN "max_total_steps"
    ELSE IF s.active_agent # None /\ s.retry_tracker[s.active_agent] > s.max_retries
         THEN "max_retries"
    ELSE None

\* SupervisorState.register_step(agent)
RegisterStep(s, agent) ==
    [s EXCEPT !.total_steps = @ + 1,
              !.retry_tracker[agent] = @ + 1,
              !.active_agent = agent]

\* SupervisorState.mark_agent_result(agent, "succeeded", output)
MarkAgentResult(s, agent) ==
    [s EXCEPT !.agent_attempts[agent] = @ + 1]

\* SupervisorState.reset_agent_retry(agent)
ResetAgentRetry(s, agent) ==
    [s EXCEPT !.retry_tracker[agent] = 0, !.active_agent = None]

\* SupervisorState(task_input=..., max_retries=..., max_total_steps=...):
\* retry_tracker.get(agent, 0) and the attempts of agent_attempts are 0 for
\* an agent without an entry; decisions is kept by its length.
GraphSupervisorState(mr, mts) ==
    [max_retries |-> mr, max_total_steps |-> mts, total_steps |-> 0,
     active_agent |-> None, retry_tracker |-> [a \in Members |-> 0],
     agent_attempts |-> [a \in Members |-> 0], decisions |-> 0]

InitGraph ==
    /\ NoPipeline
    /\ fn = "none"
    /\ arg \in [max_retries : 0..(MaxRetryLimit + 1), max_total_steps : 0..MaxTotalSteps]
    /\ res = <<>>

\* build_supervisor_graph(...) and the start of a run at the entry point:
\* the graph state holds no supervisor_state yet.  node_runs and invocations
\* count the node executions and the calls of an agent runnable.
BuildSupervisorGraph ==
    /\ fn = "none"
    /\ fn' = "supervisor"
    /\ res' = [supervisor_state |-> Unset, next_agent |-> None, error |-> None,
               node_runs |-> 0, invocations |-> 0]
    /\ UNCHANGED <<pipelineVars, arg>>

\* The node of _make_supervisor_node, followed by _route_from_supervisor.
SupervisorNode ==
    /\ fn = "supervisor"
    /\ LET s == IF res.supervisor_state = Unset
                THEN GraphSupervisorState(arg.max_retries, arg.max_total_steps)
                ELSE res.supervisor_state[1]
       IN  IF CheckLoopSafeguards(s) # None
           THEN /\ fn' = "raised"
                /\ res' = [res EXCEPT !.supervisor_state = Some(s),
                                      !.error = CheckLoopSafeguards(s),
                                      !.node_runs = @ + 1]
           ELSE \E next_step \in Routes :
                  IF next_step = None
                  THEN /\ fn' = "raised"
                       /\ res' = [res EXCEPT !.supervisor_state = Some(s),
                                             !.error = "no_route",
                                             !.node_runs = @ + 1]
                  ELSE /\ fn' = IF next_step \in Members THEN next_step ELSE "END"
                       /\ res' = [res EXCEPT
                                     !.supervisor_state =
                                         Some([s EXCEPT !.decisions = @ + 1]),
                                     !.next_agent = next_step,
                                     !.node_runs = @ + 1]
    /\ UNCHANGED <<pipelineVars, arg>>

\* The node of _wrap_agent_node(agent_name, runnable); the runnable returns
\* or raises.
AgentNode ==
    /\ fn \in Members
    /\ LET s == RegisterStep(res.supervisor_state[1], fn)
       IN  IF CheckLoopSafeguards(s) # None
           THEN /\ fn' = "raised"
                /\ res' = [res EXCEPT !.supervisor_state = Some(s),
                                      !.error = CheckLoopSafeguards(s),
                                      !.node_runs = @ + 1]
           ELSE \/ /\ fn' = "supervisor"
                   /\ res' = [res EXCEPT
                                 !.supervisor_state =
                                     Some(ResetAgentRetry(MarkAgentResult(s, fn), fn)),
                                 !.node_runs = @ + 1,
                                 !.invocations = @ + 1]
                \/ /\ fn' = "raised"
                   /\ res' = [res EXCEPT !.supervisor_state = Some(s),
                                         !.error = "agent",
                                         !.node_runs = @ + 1,
                                         !.invocations = @ + 1]
    /\ UNCHANGED <<pipelineVars, arg>>

NextGraph ==
    \/ BuildSupervisorGraph
    \/ SupervisorNode
    \/ AgentNode

SpecGraph == InitGraph /\ [][NextGraph]_vars

\* ------------------------------------------------------------- properties
IsPrefix(s, t) == Len(s) <= Len(t) /\ SubSeq(t, 1, Len(s)) = s

\* No call of run_supervisor is in progress and at least one has been made.
CallOver == runs >= 1 /\ NoCall

C2_InvocationOrder ==
    /\ IsPrefix(invoked, Pipeline)
    /\ pc \in {"final", "compile", "finish", "returned"} => invoked = Pipeline

C2_Witness ==
    /\ pc = "returned"
    /\ analysis_order = <<"policy", "market">>
    /\ invoked = <<"policy", "market", "cross_layer_validation">>
    /\ notes["policy"] = <<NoResult>> /\ notes["market"] = <<SummariseAgentResult(reply)>>

\* C3 as stated: on one state object, calls with an existing state included,
\* stage is never set to an earlier stage.
C3_StageNeverBackward ==
    [][(runs' = runs \/ ~fresh') => StageRank(stage') >= StageRank(stage)]_vars

\* C3 amended: during a call that started on a fresh state, stage is never
\* set to an earlier stage.
C3_StageForwardOnFreshState ==
    [][(runs' = runs /\ fresh) => StageRank(stage') >= StageRank(stage)]_vars

C3_Witness ==
    /\ fresh /\ pc = "returned" /\ stage = "done"
    /\ Len(analysis_order) = 2 /\ Len(validation_order) = 1

\* C4 as stated: total_steps <= max_steps in every reachable state.
C4_StepsWithinLimit == total_steps <= max_steps

\* C4 amended: total_steps <= max_steps whenever step() has returned and the
\* collaborator is invoked, and at most max_steps step() calls return normally.
C4_StepsWithinLimitAtInvocation ==
    /\ pc = "await" => total_steps <= max_steps
    /\ step_returns <= max_steps

C4_Witness ==
    /\ pc = "await" /\ max_steps = 2 /\ total_steps = 2 /\ runs = 2

\* C5 as stated: retry_count <= max_retries in every reachable state.
C5_RetriesWithinLimit == retry_count <= max_retries

\* C5 amended: retry_count <= max_retries + 1 in every state, and
\* retry_count <= max_retries whenever a collaborator is invoked.
C5_RetriesAtMostOneOver ==
    /\ retry_count <= max_retries + 1
    /\ pc = "await" => retry_count <= max_retries

C5_Witness ==
    /\ max_retries = 1 /\ retry_count = 2
    /\ runs = 3 /\ pc = "raised" /\ error = "max_retries"

\* C6: on a fresh state at most max_steps collaborators are invoked; with more
\* than max_steps configured agents the call does not return, and when the
\* step limit raises it is the (max_steps+1)-th step() call, made after exactly
\* max_steps invocations.
C6_GuardBeforeInvocation ==
    fresh =>
        /\ Len(invoked) <= max_steps
        /\ (CallOver /\ Len(Pipeline) > max_steps) => pc = "raised"
        /\ error = "max_steps" =>
             /\ pc = "raised"
             /\ step_calls = max_steps + 1
             /\ Len(invoked) = max_steps
             /\ Len(history) = max_steps

C6_Witness ==
    /\ fresh /\ error = "max_steps"
    /\ max_steps = 2 /\ Len(Pipeline) = 3
    /\ invoked = SubSeq(Pipeline, 1, 2)

\* C7: when a collaborator raises during a call on a fresh state, the call
\* ends with the exception, retry_count is 1, the failing agent is the last
\* one invoked, nothing is recorded for it, and there is no report and no
\* final or done stage.
C7_FailFast ==
    (fresh /\ error = "agent") =>
        /\ pc = "raised"
        /\ retry_count = 1
        /\ invoked # <<>>
        /\ step_calls = Len(invoked)
        /\ notes[Last(invoked)] = <<>>
        /\ Len(decisions) = Len(invoked) - 1
        /\ Len(history) = Len(invoked) - 1
        /\ \A i \in DOMAIN history : history[i].agent # Last(invoked)
        /\ final_report = Unset
        /\ report_writes = 0
        /\ stage \in {"analysis", "validation"}

C7_Witness ==
    /\ fresh /\ error = "agent" /\ pc = "raised"
    /\ Len(Pipeline) = 3 /\ Len(invoked) = 2

\* C8 as stated: total_steps is the number of step() calls that returned
\* without raising.
C8_StepsEqualReturns == total_steps = step_returns

\* C8 amended: total_steps is the number of step() calls made on the state,
\* raising ones included; once a step() call has raised it is larger than the
\* number of calls that returned.
C8_StepsEqualCalls ==
    /\ total_steps = step_calls
    /\ error \in {"max_steps", "max_retries"} => total_steps > step_returns

C8_Witness ==
    /\ total_steps = 3 /\ step_returns = 1 /\ runs = 2 /\ error = "max_steps"

\* C9: for every agent, the number of notes is the number of its invocations
\* that returned; failed and guard-rejected invocations add none.
C9_NotesMatchCompleted ==
    \A a \in AgentNames : Len(notes[a]) = completed[a]

C9_Witness ==
    /\ completed["market"] = 2 /\ Len(notes["market"]) = 2
    /\ completed["policy"] = 1 /\ retry_count = 1
    /\ pc = "raised" /\ error = "agent"

\* C10 as stated: final_report is unset whenever stage is analysis or
\* validation, and it is assigned at most once on a state.
C10_ReportOnce ==
    /\ stage \in {"analysis", "validation"} => final_report = Unset
    /\ report_writes <= 1

\* C10 amended: final_report is assigned once per call that completes, while
\* stage is final and after every configured agent has run; during the first
\* call on a state it is unset until then.
C10_ReportOncePerCompletedCall ==
    /\ report_writes <= runs
    /\ (final_report = Unset) <=> (report_writes = 0)
    /\ pc = "finish" => (stage = "final" /\ invoked = Pipeline /\ final_report # Unset)
    /\ pc = "returned" => final_report # Unset
    /\ fresh =>
         /\ report_writes <= 1
         /\ stage \in {"analysis", "validation"} => final_report = Unset
         /\ pc \in {"analysis", "loop", "await", "validation", "final", "compile"}
               => final_report = Unset

C10_Witness ==
    /\ ~fresh /\ pc = "returned" /\ report_writes = 2 /\ stage = "done"


\* C14: cleaning is idempotent: cleaning an already cleaned text with the same
\* sentence limit gives the same text.
C14_CleanIdempotent ==
    (fn = "_clean_text" /\ Len(res) = 2) => res[2] = res[1]

\* Strings, numbers, null, and lists and string-keyed mappings of such.
RECURSIVE JsonPrimitive(_)
JsonPrimitive(value) ==
    CASE value.t \in {"none", "str", "int"} -> TRUE
      [] value.t = "list" -> \A i \in DOMAIN value.v : JsonPrimitive(value.v[i])
      [] value.t = "dict" ->
            \A i \in DOMAIN value.v :
                value.v[i][1].t = "str" /\ JsonPrimitive(value.v[i][2])
      [] OTHER -> FALSE

\* C13: the serializer never raises, and its result consists only of
\* strings, numbers, null, lists and string-keyed mappings of such values.
C13_SerialiseTotal ==
    fn = "_serialise" => (res[1].t # "raise" /\ JsonPrimitive(res[1]))

\* text.split("\n")
RECURSIVE SplitLines(_)
SplitLines(s) ==
    IF \E i \in DOMAIN s : s[i] = NL
    THEN LET i == CHOOSE k \in DOMAIN s : s[k] = NL /\ \A j \in 1..(k - 1) : s[j] # NL
         IN  <<SubSeq(s, 1, i - 1)>> \o SplitLines(SubSeq(s, i + 1, Len(s)))
    ELSE <<s>>

\* A line that starts with a section number: a digit and a full stop.
IsHeaderLine(line) ==
    Len(line) >= 2 /\ line[1] \in Range(Digits) /\ line[2] = "."

\* The indented item lines that follow line i - 1, without their markers.
RECURSIVE ItemsFrom(_, _)
ItemsFrom(lines, i) ==
    IF i <= Len(lines) /\ lines[i] # <<>> /\ lines[i][1] = IndentMark
    THEN <<Tail(lines[i])>> \o ItemsFrom(lines, i + 1)
    ELSE <<>>

\* The items under the header of section n of a report.
SectionItems(report, n) ==
    LET lines == SplitLines(report)
    IN  IF \E i \in DOMAIN lines : lines[i] = Header(n)
        THEN ItemsFrom(lines, 1 + CHOOSE i \in DOMAIN lines : lines[i] = Header(n))
        ELSE <<>>

\* part occurs in text as a run of consecutive symbols
Contains(text, part) ==
    \E i \in 1..(Len(text) - Len(part) + 1) :
        SubSeq(text, i, i + Len(part) - 1) = part

\* A report has been compiled from the state.
Compiled == fn = "_compile_final_report"

\* C11: the compiled report has exactly the 8 numbered section header lines
\* 1. to 8., in ascending order, and each is followed by at least one indented
\* item line, whatever the notes and the task input are.
C11_EightSections ==
    Compiled =>
        /\ SelectSeq(SplitLines(res[1]), IsHeaderLine) = [n \in 1..8 |-> Header(n)]
        /\ \A n \in 1..8 : SectionItems(res[1], n) # <<>>

C11_Witness ==
    /\ Compiled
    /\ task_input = <<NL, "2", ".", " ", "a">>
    /\ notes["market"] = << <<NL, "2", ".", " ", "a">> >>
    /\ notes["policy"] = <<>>

\* The agent has a note and its latest note cleans to the empty text.
CleansToEmpty(agent) ==
    NotesOf(agent) # <<>> /\ Stripped(Last(NotesOf(agent))) = <<>>

\* The agent contributes no text to a section.
NoData(agent) == NotesOf(agent) = <<>> \/ CleansToEmpty(agent)

\* C12: a section whose agent has no note, or whose agent's latest note cleans
\* to the empty text, has the insufficient-data placeholder as its body: the
\* sections of policy, OEM, supply chain and finance, the market section when
\* neither market nor policy has data, the cross-layer section when no
\* validation agent has data.
C12_PlaceholderSections ==
    Compiled =>
        /\ NoData("policy") => SectionItems(res[1], 3) = <<Placeholder>>
        /\ NoData("oem") => SectionItems(res[1], 4) = <<Placeholder>>
        /\ NoData("supply_chain") => SectionItems(res[1], 5) = <<Placeholder>>
        /\ NoData("finance") => SectionItems(res[1], 6) = <<Placeholder>>
        /\ (NoData("market") /\ NoData("policy")) =>
               SectionItems(res[1], 2) = << <<"trends:">>, Placeholder >>
        /\ (\A a \in Range(validation_order) : NoData(a)) =>
               SectionItems(res[1], 7) = <<Placeholder>>

C12_Witness ==
    /\ Compiled
    /\ CleansToEmpty("policy") /\ NotesOf("market") = <<>>
    /\ validation_order # <<>> /\ CleansToEmpty(validation_order[1])

\* The punctuation that can follow a URL in a text.
TrailingPunct == {".", ",", ";", ":", "!", "?", "'", ")", "]"}

\* text without the punctuation at its end
RECURSIVE RStripTrailing(_)
RStripTrailing(s) ==
    IF s # <<>> /\ Last(s) \in TrailingPunct
    THEN RStripTrailing(SubSeq(s, 1, Len(s) - 1)) ELSE s

\* The URLs occurring in a text, without the punctuation that follows them.
UrlsIn(s) == {RStripTrailing(match) : match \in FindAllFrom(s, 1)}

\* The strings anywhere in a recorded value.
RECURSIVE StringsIn(_)
StringsIn(value) ==
    CASE value.t = "str" -> {value.v}
      [] value.t = "list" -> UNION {StringsIn(value.v[i]) : i \in DOMAIN value.v}
      [] value.t = "dict" -> UNION {StringsIn(value.v[i][2]) : i \in DOMAIN value.v}
      [] OTHER -> {}

\* The URLs of the notes and of the recorded raw payloads.
UrlsOfState ==
    UNION {UNION {UrlsIn(notes[a][i]) : i \in DOMAIN notes[a]} : a \in DOMAIN notes}
    \cup UNION {UNION {UrlsIn(text) :
                        text \in StringsIn(DictGet(history[i].result, <<"raw">>))} :
                  i \in DOMAIN history}

\* C15: the references section lists exactly the URLs of the notes and of the
\* recorded raw payloads, each once, sorted, without trailing punctuation (so
\* a URL followed by different punctuation in a note and in a stringified
\* payload is one entry), or only the no-sources placeholder when there is
\* no URL.
C15_References ==
    Compiled =>
        SectionItems(res[1], 8) =
            IF UrlsOfState = {} THEN <<NoSources>> ELSE SortTexts(UrlsOfState)

C17_ProgressOncePerStep ==
    [][/\ (handler # "none" /\ Len(history') = Len(history) + 1) =>
              progress_calls' = Append(progress_calls, Last(history'))
       /\ (progress_calls' # progress_calls /\ progress_calls' # <<>>) =>
              /\ Len(history') = Len(history) + 1
              /\ progress_calls' = Append(progress_calls, Last(history'))
       /\ step_calls' = step_calls + 1 => callback = "idle"]_vars

\* The section of the report that belongs to an agent.
SectionOf(agent) ==
    CASE agent = "market" -> 2
      [] agent = "policy" -> 3
      [] agent = "oem" -> 4
      [] agent = "supply_chain" -> 5
      [] agent = "finance" -> 6
      [] OTHER -> 7

\* text occurs in an item of section n of the report
InSection(report, n, text) ==
    \E i \in DOMAIN SectionItems(report, n) :
        Contains(SectionItems(report, n)[i], text)

\* A call on a fresh state has returned, and the agents are stubs that
\* return a fixed string.
StubRunReturned == fresh /\ pc = "returned" /\ reply.t = "str"

\* C18: after a run with stub agents that each return a fixed string, stage
\* is done and the report holds each stub's string verbatim in the section
\* of its agent.
C18_StubStringsVerbatim ==
    StubRunReturned =>
        /\ stage = "done"
        /\ \A a \in Range(Pipeline) :
             notes[a] = <<reply.v>> => InSection(final_report[1], SectionOf(a), reply.v)

\* C18 amended: the report holds the cleaned form of each stub's string in
\* the section of its agent, which is the string itself when cleaning does
\* not change it.
C18_StubStringsCleaned ==
    StubRunReturned =>
        /\ stage = "done"
        /\ \A a \in Range(Pipeline) :
             notes[a] = <<reply.v>> =>
                 /\ InSection(final_report[1], SectionOf(a), CleanText(reply.v))
                 /\ CleanText(reply.v) = reply.v =>
                        InSection(final_report[1], SectionOf(a), reply.v)

C18_Witness ==
    /\ StubRunReturned
    /\ reply.v = <<"a", ".">>
    /\ notes["policy"] = <<reply.v>>
    /\ notes["market"] = <<NoResult>>
    /\ notes["cross_layer_validation"] = <<reply.v>>

\* ainvoke calls that have returned since the state was created.
Successes ==
    completed["market"] + completed["policy"] + completed["cross_layer_validation"]

\* C20: history holds one record per successfully completed invocation, in
\* order: the record's step numbers increase up to total_steps, its notes end
\* with the summary logged, and earlier records stay as they are.
C20_HistoryPerInvocation ==
    /\ [](/\ Len(history) = Successes
          /\ \A i \in DOMAIN history :
               /\ history[i].step <= total_steps
               /\ i > 1 => history[i - 1].step < history[i].step
               /\ history[i].notes # <<>>
               /\ Last(history[i].notes) = DictGet(history[i].result, <<"summary">>).v)
    /\ [][history' = <<>> \/ IsPrefix(history, history')]_vars

\* The number of notes of all agents.
TotalNotes ==
    Len(notes["market"]) + Len(notes["policy"]) + Len(notes["cross_layer_validation"])

\* C21: decisions is an append-only log: an invocation whose ainvoke returns
\* appends the one summary it appends to the agent's notes, a failed
\* invocation appends nothing, existing entries stay (a new state starts an
\* empty log), and the length of decisions is the total number of notes.
C21_DecisionsLog ==
    /\ [](Len(decisions) = TotalNotes /\ Len(decisions) = Successes)
    /\ [][/\ decisions' = <<>> \/ IsPrefix(decisions, decisions')
          /\ Successes' = Successes + 1 =>
               /\ decisions' = Append(decisions, Last(decisions'))
               /\ \E a \in AgentNames :
                    notes' = [notes EXCEPT ![a] = Append(@, Last(decisions'))]
          /\ retry_count' = retry_count + 1 => decisions' = decisions]_vars

C21_Witness ==
    /\ Len(decisions) = 2
    /\ decisions[1] # decisions[2]
    /\ retry_count = 1

\* The unwrap rules as stated: None gives the fixed text, a string itself, a
\* mapping its last message or else its output, an object its content (a
\* string as it is, parts joined by newline), a sequence its last non-empty
\* element, anything else its string form.
RECURSIVE StatedSummary(_)
StatedSummary(result) ==
    CASE result.t = "none" -> NoResult
      [] result.t = "str" -> result.v
      [] result.t = "dict" ->
            LET messages == DictGet(result, <<"messages">>)
                output == DictGet(result, <<"output">>)
            IN  IF messages.t = "list" /\ messages.v # <<>>
                THEN StatedSummary(Last(messages.v))
                ELSE IF messages.t = "str" /\ messages.v # <<>>
                THEN <<Last(messages.v)>>
                ELSE IF output.t # "none" THEN StatedSummary(output)
                ELSE Str(result)
      [] result.t = "obj" ->
            IF result.v.content = Unset THEN Str(result)
            ELSE LET content == result.v.content[1]
                 IN  IF content.t = "str" THEN content.v
                     ELSE IF content.t = "list" /\ JoinParts(content) # <<>>
                     THEN JoinParts(content)
                     ELSE Str(result)
      [] result.t = "list" ->
            LET flattened == SelectSeq(result.v, Truthy)
            IN  IF flattened # <<>> THEN StatedSummary(Last(flattened))
                ELSE Str(result)
      [] OTHER -> Str(result)

\* C22: the normalization of every response is the text the stated unwrap
\* rules give, in particular the content of an object also when that content
\* is an empty or a whitespace-only string.
C22_SummariseRules ==
    fn = "_summarise_agent_result" => res[1] = StatedSummary(arg)

\* The agent has at least one note.
HasNotes(agent) == agent \in DOMAIN notes /\ notes[agent] # <<>>

\* The cleaned most recent note of the agent, the placeholder without notes.
LastNoteText(agent) ==
    IF HasNotes(agent) THEN CleanText(notes[agent][Len(notes[agent])])
    ELSE Placeholder

\* The cleaned most recent notes of the listed agents that have notes, in
\* the listed order, without repetitions, joined by spaces.
LastNotesJoined(agents) ==
    LET listed == SelectSeq(agents, HasNotes)
    IN  IF listed = <<>> THEN Placeholder
        ELSE Join(<<" ">>, Unique([i \in DOMAIN listed |-> LastNoteText(listed[i])]))

\* C23: the executive summary and the sections 2 to 7 of the report are
\* given by the most recent note of each agent alone; earlier notes have no
\* part in them.
C23_LatestNoteOnly ==
    Compiled =>
        /\ SectionItems(res[1], 1) =
               << <<"query: ">> \o CleanTextLimit(task_input, 1),
                  <<"finding: ">> \o LastNoteText("market"),
                  <<"trend: ">> \o LastNoteText("finance"),
                  <<"conclusion">> >>
        /\ SectionItems(res[1], 2) =
               << <<"trends:">>, LastNotesJoined(<<"market", "policy">>) >>
        /\ SectionItems(res[1], 3) = <<LastNoteText("policy")>>
        /\ SectionItems(res[1], 4) = <<LastNoteText("oem")>>
        /\ SectionItems(res[1], 5) = <<LastNoteText("supply_chain")>>
        /\ SectionItems(res[1], 6) = <<LastNoteText("finance")>>
        /\ SectionItems(res[1], 7) = <<LastNotesJoined(validation_order)>>

C23_Witness ==
    /\ Compiled
    /\ Len(notes["market"]) = 2
    /\ CleanText(notes["market"][1]) # CleanText(notes["market"][2])

\* The text of a combined section is the placeholder or holds it.
HoldsPlaceholder(text) == Contains(text, Placeholder)

\* C24: the market section and the cross-layer section are the cleaned
\* latest notes of the listed agents that have notes, in the listed order,
\* repetitions dropped, joined by spaces; the placeholder appears in them
\* only when no listed agent has a note.
C24_CombinedSections ==
    Compiled =>
        /\ SectionItems(res[1], 2)[2] = LastNotesJoined(<<"market", "policy">>)
        /\ SectionItems(res[1], 7)[1] = LastNotesJoined(validation_order)
        /\ HoldsPlaceholder(SectionItems(res[1], 2)[2]) =>
               ~HasNotes("market") /\ ~HasNotes("policy")
        /\ HoldsPlaceholder(SectionItems(res[1], 7)[1]) =>
               \A a \in Range(validation_order) : ~HasNotes(a)

\* C24 amended: the two combined sections are as stated, and the placeholder
\* appears in them only when no listed agent has a note or the latest note
\* of a listed agent cleans to the empty text.
C24_CombinedSectionsCleaned ==
    Compiled =>
        /\ SectionItems(res[1], 2)[2] = LastNotesJoined(<<"market", "policy">>)
        /\ SectionItems(res[1], 7)[1] = LastNotesJoined(validation_order)
        /\ HoldsPlaceholder(SectionItems(res[1], 2)[2]) =>
               \/ ~HasNotes("market") /\ ~HasNotes("policy")
               \/ CleansToEmpty("market") \/ CleansToEmpty("policy")
        /\ HoldsPlaceholder(SectionItems(res[1], 7)[1]) =>
               \/ \A a \in Range(validation_order) : ~HasNotes(a)
               \/ \E a \in Range(validation_order) : CleansToEmpty(a)

C24_Witness ==
    /\ Compiled
    /\ HasNotes("market") /\ HasNotes("policy")
    /\ LastNoteText("market") = LastNoteText("policy")
    /\ LastNoteText("market") # Placeholder

\* The step begins a call of run_supervisor on a newly constructed state.
OnNewState == runs' = runs + 1 /\ fresh'

\* C25: on one state, retry_count changes only by +1, when a collaborator
\* invocation fails, and max_retries does not change; once retry_count >
\* max_retries, every step() raises and no collaborator is invoked.
C25_RetryCountMonotone ==
    [][OnNewState \/
         /\ max_retries' = max_retries
         /\ \/ retry_count' = retry_count
            \/ /\ retry_count' = retry_count + 1
               /\ in_flight = 1 /\ in_flight' = 0
               /\ error' = "agent"
         /\ retry_count > max_retries =>
              /\ in_flight' <= in_flight
              /\ step_returns' = step_returns
              /\ step_calls' = step_calls + 1 => pc' = "raised"]_vars

C25_Witness ==
    /\ retry_count > max_retries
    /\ ~fresh
    /\ pc = "raised"
    /\ error = "max_retries"

\* The task string at the head of a message built by _build_agent_message:
\* the text before the first blank line.
MessageTask(content) ==
    LET k == CHOOSE i \in 1..(Len(content) - 1) :
                 /\ content[i] = NL /\ content[i + 1] = NL
                 /\ \A j \in 1..(i - 1) : ~(content[j] = NL /\ content[j + 1] = NL)
    IN  SubSeq(content, 1, k - 1)

\* C26: when a call has returned, the task on the first executive-summary
\* line of final_report is the first sentence of the task string sent to
\* every agent in that call, also when the call was given an existing state
\* and a task_input argument; and task_input of a state never changes after
\* the state's creation.
C26_ReportEchoesSentTask ==
    /\ [](pc = "returned" =>
            \A i \in DOMAIN sent :
                SectionItems(final_report[1], 1)[1]
                    = <<"query: ">> \o CleanTextLimit(MessageTask(sent[i]), 1))
    /\ [][OnNewState \/ task_input' = task_input]_vars

\* C27: every call of run_supervisor ends, given that each ainvoke and each
\* progress callback eventually returns or raises: it returns the state with
\* stage = "done" and final_report set, or it raises an error; a call makes
\* at most n + m ainvoke calls, and at most max_steps step() calls return on
\* one state.
C27_Terminates ==
    /\ ~NoCall ~> (pc = "returned" \/ pc = "raised")
    /\ [](pc = "returned" => stage = "done" /\ final_report # Unset /\ error = None)
    /\ [](pc = "raised" => error # None)
    /\ [](Len(sent) <= Len(Pipeline))
    /\ [](step_returns <= max_steps)

C27_Witness ==
    /\ pc = "returned"
    /\ Len(sent) = Len(Pipeline) /\ Len(Pipeline) = 2
    /\ handler = "async" /\ Len(progress_calls) = 2
    /\ runs = 2

\* C28: the two drafts of the workflow are equivalent: from the same state
\* and with the same outcome of the agent, the step that follows the return
\* of ainvoke in the draft that runs is the step of builder.py and the step
\* of workflow.py alike, so that total_steps, retry_count, notes, decisions,
\* history, stage and final_report agree after every step.  The other steps
\* of run_supervisor are the same code in both drafts.
C28_DraftsEquivalent ==
    [][AgentReturns => AgentReturnsIn("builder") /\ AgentReturnsIn("workflow")]_vars

\* The kind of a stripped line of a report text.
LineKind(stripped) ==
    IF stripped = <<>> THEN "blank"
    ELSE IF StartsWith(stripped, <<"=", "=", "=">>) THEN "rule"
    ELSE IF HeaderMatch(stripped) # Unset THEN "header"
    ELSE IF StartsWith(stripped, <<"-", " ">>) THEN "item"
    ELSE "paragraph"

\* The kind of line i of the text handed to _format_sections.
KindAt(i) == LineKind(Strip(TextLines[i]))

\* The indices of the header lines, in input order.
HeaderLines ==
    SelectSeq([i \in 1..Len(TextLines) |-> i], LAMBDA i : KindAt(i) = "header")

\* The item and paragraph lines whose nearest preceding header is header k.
BodyLinesOf(k) ==
    SelectSeq([i \in 1..Len(TextLines) |-> i],
              LAMBDA i : /\ KindAt(i) \in {"item", "paragraph"}
                         /\ i > HeaderLines[k]
                         /\ k < Len(HeaderLines) => i < HeaderLines[k + 1])

\* What line i is to be emitted as.
EmittedFor(i) ==
    LET stripped == Strip(TextLines[i])
    IN  IF KindAt(i) = "item"
        THEN [type |-> "item",
              html |-> FormatListItem(Strip(SubSeq(stripped, 3, Len(stripped))))]
        ELSE [type |-> "paragraph", html |-> FormatParagraph(stripped)]

\* The entries and paragraphs of formatted blocks in order, each with the
\* number of its block, counted from n + 1.
RECURSIVE FlatBlocks(_, _)
FlatBlocks(blocks, n) ==
    IF blocks = <<>> THEN <<>>
    ELSE LET b == Head(blocks)
         IN  (IF b.type = "list"
              THEN [i \in DOMAIN b.entries |->
                       [type |-> "item", html |-> b.entries[i], block |-> n + 1]]
              ELSE << [type |-> "paragraph", html |-> b.html, block |-> n + 1] >>)
             \o FlatBlocks(Tail(blocks), n + 1)

\* _format_sections has returned its sections.
Formatted == fn = "_format_sections"

\* C29: _format_sections yields one section per numbered header line, in
\* input order; every item line and every paragraph line after the first
\* header is emitted exactly once, in input order, in the section of its
\* nearest preceding header, and nothing else is emitted; two item lines
\* that follow each other in a section share a list block exactly when only
\* '===' lines lie between them, so a list is closed by a blank line, a
\* paragraph line, the next header or the end of the input.
C29_SectionsKeepLines ==
    Formatted =>
        /\ Len(res[1]) = Len(HeaderLines)
        /\ \A k \in DOMAIN res[1] :
             LET match == HeaderMatch(Strip(TextLines[HeaderLines[k]]))[1]
                 body == BodyLinesOf(k)
                 flat == FlatBlocks(res[1][k].blocks, 0)
             IN  /\ res[1][k].index = match.index
                 /\ res[1][k].title = match.title
                 /\ Len(flat) = Len(body)
                 /\ \A p \in DOMAIN flat :
                      /\ flat[p].type = EmittedFor(body[p]).type
                      /\ flat[p].html = EmittedFor(body[p]).html
                 /\ \A p \in 1..(Len(flat) - 1) :
                      flat[p].type = "item" /\ flat[p + 1].type = "item" =>
                          (flat[p].block = flat[p + 1].block
                             <=> \A m \in (body[p] + 1)..(body[p + 1] - 1) :
                                    KindAt(m) = "rule")
                 /\ \A b \in DOMAIN res[1][k].blocks :
                      res[1][k].blocks[b].type = "list" =>
                          res[1][k].blocks[b].entries # <<>>

\* A text of a header, an item, a blank line and an item: one section with
\* two list blocks.
C29_Witness ==
    /\ Formatted
    /\ Len(TextLines) = 4
    /\ KindAt(1) = "header" /\ KindAt(2) = "item"
    /\ KindAt(3) = "blank" /\ KindAt(4) = "item"
    /\ Len(res[1]) = 1
    /\ Len(res[1][1].blocks) = 2

\* A run of the graph has begun and its supervisor_state exists.
GraphRunning ==
    fn \in Members \cup {"supervisor", "END", "raised"} /\ res.supervisor_state # Unset

\* C30: whatever the supervisor routes to, an agent runnable is invoked only
\* while total_steps is below max_total_steps; the runs of agents never
\* exceed max_total_steps, and the graph executes at most 2 * max_total_steps
\* + 1 nodes, so it cannot loop forever.
C30_StepBound ==
    /\ [](GraphRunning =>
            /\ res.invocations <= arg.max_total_steps
            /\ res.supervisor_state[1].total_steps <= arg.max_total_steps
            /\ res.node_runs <= 2 * arg.max_total_steps + 1)
    /\ [][(fn \in Members /\ res'.invocations = res.invocations + 1) =>
            (res'.supervisor_state[1].total_steps < arg.max_total_steps)]_vars

\* The guard has stopped a graph whose supervisor kept routing to agents.
C30_Witness ==
    /\ fn = "raised"
    /\ res.error = "max_total_steps"
    /\ arg.max_total_steps = MaxTotalSteps
    /\ res.invocations = MaxTotalSteps - 1
    /\ res.supervisor_state[1].agent_attempts["market"] >= 1
    /\ res.supervisor_state[1].agent_attempts["policy"] >= 1

====
